---- MODULE Spec2Model ----
(***************************************************************************)
(* ZenParticles: the shape generator (utils/geometry.ts), the attribute    *)
(* assembler (components/Particles.tsx) and the application state that     *)
(* feeds them (App.tsx).                                                   *)
(*                                                                         *)
(* Typed arrays of MAX_PARTICLE_COUNT slots are kept as a fill rule plus   *)
(* the map of the slots written one by one: a Float32Array drops a write   *)
(* to an index outside 0..length-1, and so does SetAt.                     *)
(***************************************************************************)
EXTENDS Integers, Sequences, FiniteSets, TLC

\* ------------------------------------------------------------ constants

MAX_PARTICLE_COUNT == 40000

PROCEDURAL_COUNT == 15000

\* Math.min(customParticleTextures.length, 5); particleTextures.length >= 5
PhotoCap == 5

\* if (alpha > 20)
AlphaThreshold == 20

\* sizeBuffer[baseCount + i] = 6.0
PhotoSize == 6

\* ------------------------------------------------------------ bounds

\* the large pixel buffers are BigW x BigH pixels (more than the capacity)
BigW == 201

BigH == 200

\* the nearly-full buffer has MAX_PARTICLE_COUNT - NearGap visible pixels
NearGap == 2

\* texture loads that may be in flight at once
MaxPending == 2

\* ------------------------------------------------------------ types.ts

ShapeType ==
  {"Sphere", "Heart", "Flower", "Saturn", "Buddha", "DNA", "Fireworks",
   "Spiral", "Image", "Text", "Tree", "Snowflake", "Pumpkin", "Lantern",
   "Zongzi", "Rabbit", "Egg", "Rose", "Bridge", "Flag", "Snake"}

ColorMode == {"Monochrome", "Gradient", "Rainbow", "ImageColor"}

\* a value of type string that is no member of the enumeration
UnknownShape == "Polygon"

\* ------------------------------------------------------------ pixel buffers
\* An ImageData: width, height and the row-major RGBA bytes. The bytes are
\* kept as a sequence: data[k] of the code is ByteAt(img, k).

Null == "null"

ByteAt(img, k) == img.data[k + 1]

RedPixel(p) == <<255, 0, 0, 255>>

\* alpha 0, 20, 21 and 255: the threshold and its two neighbours
EdgePixel(p) == <<0, 255, 0, <<0, 20, 21, 255>>[p + 1]>>

ClearPixel(p) == <<255, 255, 255, 0>>

FullPixel(p) == <<p % 256, 0, 255, 255>>

NearPixel(p) ==
  <<p % 256, 0, 255,
    IF p < BigW * BigH - (MAX_PARTICLE_COUNT - NearGap) THEN 20 ELSE 255>>

\* the pixel p of a pattern, as <<r, g, b, a>>
PixelOf(pattern, p) ==
  CASE pattern = "red" -> RedPixel(p)
    [] pattern = "edge" -> EdgePixel(p)
    [] pattern = "clear" -> ClearPixel(p)
    [] pattern = "full" -> FullPixel(p)
    [] pattern = "near" -> NearPixel(p)

MakeImage(w, h, pattern) ==
  [width |-> w, height |-> h,
   data |-> SubSeq([k \in 1..(w * h * 4) |->
                      PixelOf(pattern, (k - 1) \div 4)[((k - 1) % 4) + 1]],
                   1, w * h * 4)]

Buffers ==
  [red    |-> MakeImage(2, 2, "red"),
   edge   |-> MakeImage(2, 2, "edge"),
   clear  |-> MakeImage(2, 1, "clear"),
   full   |-> MakeImage(BigW, BigH, "full"),
   near   |-> MakeImage(BigW, BigH, "near"),
   zeroW  |-> MakeImage(0, 2, "clear"),
   zeroH  |-> MakeImage(2, 0, "clear")]

BufferNames == DOMAIN Buffers

ImageDataOf(ref) == Buffers[ref]

\* ------------------------------------------------------------ colours
\* A channel is the rational <<numerator, denominator>>; a colour is <<r, g, b>>.

ChEq(a, b) == a[1] * b[2] = b[1] * a[2]

ColorEq(c, d) == ChEq(c[1], d[1]) /\ ChEq(c[2], d[2]) /\ ChEq(c[3], d[3])

Byte(v) == <<v, 255>>

White == <<<<1, 1>>, <<1, 1>>, <<1, 1>>>>

Zero3 == <<<<0, 1>>, <<0, 1>>, <<0, 1>>>>

FlagRed == <<<<9, 10>>, <<0, 1>>, <<0, 1>>>>

FlagYellow == <<<<1, 1>>, <<1, 1>>, <<0, 1>>>>

\* new THREE.Color(hex): the three bytes of the hex string over 255
HexColor ==
  ("#ff0055" :> <<Byte(255), Byte(0), Byte(85)>>) @@
  ("#4400ff" :> <<Byte(68), Byte(0), Byte(255)>>) @@
  ("#ff0000" :> <<Byte(255), Byte(0), Byte(0)>>) @@
  ("#ffff00" :> <<Byte(255), Byte(255), Byte(0)>>) @@
  ("#ffffff" :> <<Byte(255), Byte(255), Byte(255)>>) @@
  ("#DE2910" :> <<Byte(222), Byte(41), Byte(16)>>) @@
  ("#FF4D00" :> <<Byte(255), Byte(77), Byte(0)>>) @@
  ("#2f5a2f" :> <<Byte(47), Byte(90), Byte(47)>>) @@
  ("#ffd700" :> <<Byte(255), Byte(215), Byte(0)>>) @@
  ("#cc0000" :> <<Byte(204), Byte(0), Byte(0)>>) @@
  ("#ff6600" :> <<Byte(255), Byte(102), Byte(0)>>) @@
  ("#2a1a0a" :> <<Byte(42), Byte(26), Byte(10)>>) @@
  ("#228b22" :> <<Byte(34), Byte(139), Byte(34)>>) @@
  ("#f5f5dc" :> <<Byte(245), Byte(245), Byte(220)>>) @@
  ("#4b0082" :> <<Byte(75), Byte(0), Byte(130)>>) @@
  ("#00bfff" :> <<Byte(0), Byte(191), Byte(255)>>) @@
  ("#000033" :> <<Byte(0), Byte(0), Byte(51)>>) @@
  ("#ffffe0" :> <<Byte(255), Byte(255), Byte(224)>>)

\* ------------------------------------------------------------ geometry.ts

\* alpha >= 20 in place of alpha > 20
VisiblePixels_atThreshold(img) ==
  {py * img.width + px : <<px, py>> \in
     {q \in (0..(img.width - 1)) \X (0..(img.height - 1)) :
        ByteAt(img, (q[2] * img.width + q[1]) * 4 + 3) >= AlphaThreshold}}

\* the pixels kept by the scan, as py * width + px (the scan visits them in
\* this order)
VisiblePixels(img) ==
  {py * img.width + px : <<px, py>> \in
     {q \in (0..(img.width - 1)) \X (0..(img.height - 1)) :
        ByteAt(img, (q[2] * img.width + q[1]) * 4 + 3) > AlphaThreshold}}

\* validPixels.length after the scan of a buffer
ScanLength(ref) == Cardinality(VisiblePixels(ImageDataOf(ref)))

\* validPixels.length of each buffer, scanned once
validPixelsLength ==
  [red   |-> ScanLength("red"),
   edge  |-> ScanLength("edge"),
   clear |-> ScanLength("clear"),
   full  |-> ScanLength("full"),
   near  |-> ScanLength("near"),
   zeroW |-> ScanLength("zeroW"),
   zeroH |-> ScanLength("zeroH")]

\* the test of the shape type is left out
PixelRegime_anyType(type, ref) ==
  /\ ref # Null
  /\ ImageDataOf(ref).width > 0

\* (type === IMAGE || type === TEXT) && imageData && imageData.width > 0
PixelRegime(type, ref) ==
  /\ type \in {"Image", "Text"}
  /\ ref # Null
  /\ ImageDataOf(ref).width > 0

\* the cap on validPixels.length is left out
pixelActiveCount_uncapped(len) == len

pixelActiveCount(len) ==
  IF len > MAX_PARTICLE_COUNT THEN MAX_PARTICLE_COUNT ELSE len

\* what generateShapePositions returns: currentCount and the colors array
\* (undefined, the pixels' colours, or the flag's colours)
\* the returned object has no sizes and no textureMix property, for any shape
NotReturned == "undefined"

generateShapePositions(type, ref) ==
  IF PixelRegime(type, ref)
  THEN [currentCount |-> pixelActiveCount(validPixelsLength[ref]),
        colors |-> [kind |-> "pixels", img |-> ref,
                    shuffled |-> validPixelsLength[ref] > MAX_PARTICLE_COUNT],
        sizes |-> NotReturned, textureMix |-> NotReturned]
  ELSE [currentCount |-> PROCEDURAL_COUNT,
        colors |-> IF type = "Flag"
                   THEN [kind |-> "flag", img |-> Null, shuffled |-> FALSE]
                   ELSE [kind |-> "undefined", img |-> Null, shuffled |-> FALSE],
        sizes |-> NotReturned, textureMix |-> NotReturned]

\* ------------------------------------------------------------ Math.random
\* Per-slot draws of one call are a fixed pattern picked by the call's seed.

RandValues == <<<<1, 5>>, <<7, 10>>, <<9, 10>>, <<3, 10>>, <<0, 1>>, <<2, 3>>>>

Draw(seed, i, k) == RandValues[((i * 3 + k + seed * 2) % Len(RandValues)) + 1]

Lt(a, b) == a[1] * b[2] < b[1] * a[2]

\* ------------------------------------------------------------ generator colours

\* the n-th pixel kept by the scan (n from 0), in scan order
NthVisible(img, n) ==
  LET vis == VisiblePixels(img)
  IN  CHOOSE p \in vis : Cardinality({q \in vis : q < p}) = n

\* r: data[idx] / 255, g: data[idx+1] / 255, b: data[idx+2] / 255
PixelColor(img, p) ==
  <<Byte(ByteAt(img, p * 4)), Byte(ByteAt(img, p * 4 + 1)),
    Byte(ByteAt(img, p * 4 + 2))>>

\* colours of the Flag case for point i: u, v and the star draw
\* every point of the star area is a candidate, whatever the third draw
FlagColorOf_anywhere(u, v, star) ==
  IF Lt(<<17, 20>>, star) THEN FlagYellow ELSE FlagRed

\* lines 474-492: the colour written for the draws u, v and the star draw
FlagColorOf(u, v, star) ==
  LET inStarArea == Lt(u, <<2, 5>>) /\ Lt(<<1, 2>>, v)
      isStar == Lt(<<17, 20>>, star)
  IN  IF inStarArea /\ isStar THEN FlagYellow ELSE FlagRed

FlagColor(seed, i) ==
  FlagColorOf(Draw(seed, i, 0), Draw(seed, i, 1), Draw(seed, i, 2))

\* colors[i] of the array the generator returned (g.colors.kind # "undefined");
\* after shuffleArray the kept pixels are in a permuted order
GenColorAt(g, seed, i) ==
  IF i >= g.currentCount THEN Zero3
  ELSE IF g.colors.kind = "flag" THEN FlagColor(seed, i)
  ELSE LET img == ImageDataOf(g.colors.img)
           n == IF g.colors.shuffled
                THEN (i + seed) % validPixelsLength[g.colors.img]
                ELSE i
       IN  PixelColor(img, NthVisible(img, n))

\* ------------------------------------------------------------ typed arrays
\* new Float32Array(MAX_PARTICLE_COUNT): a fill rule and the slots written

Slots == 0..(MAX_PARTICLE_COUNT - 1)

NewArray(fill) == [fill |-> fill, over |-> [i \in {} |-> 0]]

SetAt(arr, idx, v) ==
  IF idx \in Slots
  THEN [arr EXCEPT !.over = [j \in (DOMAIN arr.over) \cup {idx} |->
                               IF j = idx THEN v ELSE arr.over[j]]]
  ELSE arr

\* for (i = 0; i < photoCount; i++) arr[baseCount + i] = vals[i]
RECURSIVE WritePhotos(_, _, _, _, _)
WritePhotos(arr, baseCount, i, photoCount, vals) ==
  IF i >= photoCount THEN arr
  ELSE WritePhotos(SetAt(arr, baseCount + i, vals[i]), baseCount, i + 1,
                   photoCount, vals)

At(arr, i) == IF i \in DOMAIN arr.over THEN arr.over[i] ELSE arr.fill

\* ------------------------------------------------------------ Particles.tsx

Min(a, b) == IF a < b THEN a ELSE b

photoCountOf(textures) == Min(Len(textures), PhotoCap)

\* the sum is not clamped to the capacity
currentCountOf_unclamped(baseCount, photoCount) == baseCount + photoCount

currentCountOf(baseCount, photoCount) ==
  Min(baseCount + photoCount, MAX_PARTICLE_COUNT)

\* THREE.Color.setHSL(h, 1.0, 0.5): one channel at hue offset t
Hue2Rgb(t) ==
  LET u == IF t[1] < 0 THEN <<t[1] + t[2], t[2]>>
           ELSE IF t[1] > t[2] THEN <<t[1] - t[2], t[2]>> ELSE t
  IN  IF Lt(u, <<1, 6>>) THEN <<6 * u[1], u[2]>>
      ELSE IF Lt(u, <<1, 2>>) THEN <<1, 1>>
      ELSE IF Lt(u, <<2, 3>>) THEN <<6 * (2 * u[2] - 3 * u[1]), 3 * u[2]>>
      ELSE <<0, 1>>

SetHSL(h) ==
  <<Hue2Rgb(<<3 * h[1] + h[2], 3 * h[2]>>), Hue2Rgb(h),
    Hue2Rgb(<<3 * h[1] - h[2], 3 * h[2]>>)>>

\* c1.clone().lerp(c2, i / baseCount), one channel
\* the ratio is taken one slot late
LerpChannel_fromOne(a, b, i, baseCount) ==
  <<a[1] * baseCount + (b[1] - a[1]) * (i + 1), a[2] * baseCount>>

LerpChannel(a, b, i, baseCount) ==
  <<a[1] * baseCount + (b[1] - a[1]) * i, a[2] * baseCount>>

\* Image mode falls into the single-colour branch
SynthColor_imageMono(mode, c1, c2, baseCount, seed, i) ==
  IF mode \in {"Monochrome", "ImageColor"} THEN c1
  ELSE IF mode = "Rainbow" THEN SetHSL(Draw(seed, i, 0))
  ELSE <<LerpChannel(c1[1], c2[1], i, baseCount),
         LerpChannel(c1[2], c2[2], i, baseCount),
         LerpChannel(c1[3], c2[3], i, baseCount)>>

\* the colour the else branch writes to slot i < baseCount
SynthColor(mode, c1, c2, baseCount, seed, i) ==
  IF mode = "Monochrome" THEN c1
  ELSE IF mode = "Rainbow" THEN SetHSL(Draw(seed, i, 0))
  ELSE <<LerpChannel(c1[1], c2[1], i, baseCount),
         LerpChannel(c1[2], c2[2], i, baseCount),
         LerpChannel(c1[3], c2[3], i, baseCount)>>

\* only the colour mode is tested, the colour-bearing shapes are left out
UseGeometryColors_modeOnly(sh, mode, g) ==
  g.colors.kind # "undefined" /\ mode = "ImageColor"

\* effectiveUseGeometryColors && imageColors
UseGeometryColors(sh, mode, g) ==
  LET imageColors == g.colors.kind # "undefined"
      useGeometryColors ==
        imageColors /\ (sh \in {"Flag", "Tree", "Image", "Text"}
                          \/ mode = "ImageColor")
      effectiveUseGeometryColors ==
        useGeometryColors \/ sh \in {"Image", "Text"}
  IN  effectiveUseGeometryColors /\ imageColors

\* the colors array before the photo slots are written
ShapeColors(sh, mode, c1, c2, g, gseed, seed) ==
  IF UseGeometryColors(sh, mode, g)
  THEN NewArray([kind |-> "set", gen |-> g, seed |-> gseed])
  ELSE NewArray([kind |-> "synth", mode |-> mode, c1 |-> c1, c2 |-> c2,
                 baseCount |-> g.currentCount, seed |-> seed])

PhotoVals(v) == [i \in 0..(PhotoCap - 1) |-> v]

\* the loop starts at the second photo
PhotoColors_fromSecond(arr, baseCount, photoCount) ==
  WritePhotos(arr, baseCount, 1, photoCount, PhotoVals(White))

PhotoColors(arr, baseCount, photoCount) ==
  WritePhotos(arr, baseCount, 0, photoCount, PhotoVals(White))

\* the first photo slot is sized whatever the photo count
PhotoSizes_always(arr, baseCount, photoCount) ==
  WritePhotos(SetAt(arr, baseCount, PhotoSize), baseCount, 0, photoCount,
              PhotoVals(PhotoSize))

PhotoSizes(arr, baseCount, photoCount) ==
  WritePhotos(arr, baseCount, 0, photoCount, PhotoVals(PhotoSize))

PhotoMix(arr, baseCount, photoCount) ==
  WritePhotos(arr, baseCount, 0, photoCount, PhotoVals(1))

PhotoFlags(arr, baseCount, photoCount) ==
  WritePhotos(arr, baseCount, 0, photoCount, PhotoVals(1))

PhotoIndex(arr, baseCount, photoCount) ==
  WritePhotos(arr, baseCount, 0, photoCount, [i \in 0..(PhotoCap - 1) |-> i])

\* the useEffect that rebuilds the geometry's draw range and attributes
Assemble(sh, mode, c1, c2, g, gseed, textures, seed) ==
  LET baseCount == g.currentCount
      photoCount == photoCountOf(textures)
  IN  [drawStart |-> 0,
       drawCount |-> currentCountOf(baseCount, photoCount),
       color |-> PhotoColors(ShapeColors(sh, mode, c1, c2, g, gseed, seed),
                             baseCount, photoCount),
       pSizeOverride |-> PhotoSizes(NewArray(0), baseCount, photoCount),
       pMixTexture |-> PhotoMix(NewArray(1), baseCount, photoCount),
       pIsPhoto |-> PhotoFlags(NewArray(0), baseCount, photoCount),
       pTextureIndex |-> PhotoIndex(NewArray(0), baseCount, photoCount)]

\* color[i] of an assembled colors array
ColorAt(arr, i) ==
  IF i \in DOMAIN arr.over THEN arr.over[i]
  ELSE IF arr.fill.kind = "set"
       THEN GenColorAt(arr.fill.gen, arr.fill.seed, i)
  ELSE IF i < arr.fill.baseCount
       THEN SynthColor(arr.fill.mode, arr.fill.c1, arr.fill.c2,
                       arr.fill.baseCount, arr.fill.seed, i)
  ELSE Zero3

\* ------------------------------------------------------------ App.tsx

VARIABLES
  shape, colorMode, baseColor, secondaryColor, customText,
  photoData, textData,
  particleTextures, pendingLoads,
  gen, geo,
  randomArrays,   \* randomSizes and rotations: their length, and which run of
                  \* the memo made them
  notice          \* the latest handler showed the alert

appVars ==
  <<shape, colorMode, baseColor, secondaryColor, customText, photoData,
    textData, particleTextures, pendingLoads>>

pvars == <<appVars, gen, geo, randomArrays, notice>>

\* shape buttons that call setShape directly
PlainShapes == {"Heart", "Text"}

\* applyTheme buttons: National Flag
Themes ==
  {[shape |-> "Flag", c1 |-> "#ff0000", c2 |-> "#ffff00",
    mode |-> "Gradient", text |-> ""]}

\* values the colour pickers and the text box are given
BasePalette == {"#ff0055"}

SecondaryPalette == {"#4400ff"}

Texts == {"ZEN", " "}

\* buffers an uploaded picture decodes to
PhotoBuffers == {"red", "near", "full"}

\* the hidden canvas: the text drawn in white; blank text leaves it clear
Rasterize(text) == IF text = " " THEN "clear" ELSE "edge"

\* pseudo-random patterns of one generator or assembler call
Seeds == {0, 1}

ActiveImageData(sh, pd, td) ==
  IF sh = "Image" THEN pd ELSE IF sh = "Text" THEN td ELSE Null

\* the seed only matters where the call draws per-slot values that are kept
GenSeed(g, s) ==
  IF g.colors.kind = "flag" \/ g.colors.shuffled THEN s ELSE 0

AsmSeed(sh, mode, g, s) ==
  IF ~UseGeometryColors(sh, mode, g) /\ mode = "Rainbow" THEN s ELSE 0

\* the text effect: with shape TEXT, a change of shape or text redraws the
\* canvas and sets textData to a new ImageData
TextEffect ==
  textData' = IF shape' = "Text" /\ (shape # "Text" \/ customText' # customText)
              THEN Rasterize(customText')
              ELSE textData

TextRedrawn == shape' = "Text" /\ (shape # "Text" \/ customText' # customText)

\* Particles re-rendered after a state change: useMemo regenerates the shape
\* when shape or imageData changed (newData: imageData is a new object), and
\* the effect reassembles when one of its dependencies changed
\* the memo of the random attributes is recomputed with the shape
RandomDeps_shape(regen) == regen

\* Particles.tsx 174: the dependency list [] never changes
RandomDeps(regen) == FALSE

\* Particles.tsx 165-174: both arrays are filled for every slot
RandomAttributes(run) == [length |-> MAX_PARTICLE_COUNT, run |-> run]

Render(newData) ==
  LET regen == shape' # shape \/ newData
      active == ActiveImageData(shape', photoData', textData')
      r == generateShapePositions(shape', active)
      deps == \/ regen
              \/ colorMode' # colorMode
              \/ baseColor' # baseColor
              \/ secondaryColor' # secondaryColor
              \/ photoCountOf(particleTextures') # photoCountOf(particleTextures)
  IN  \E s \in Seeds :
        LET g == IF regen THEN [g |-> r, seed |-> GenSeed(r, s)] ELSE gen
        IN  /\ s = 0 \/ (regen /\ GenSeed(r, s) # 0)
                     \/ (deps /\ AsmSeed(shape', colorMode', g.g, s) # 0)
            /\ gen' = g
            /\ geo' = IF deps
                      THEN Assemble(shape', colorMode', HexColor[baseColor'],
                                    HexColor[secondaryColor'], g.g, g.seed,
                                    particleTextures',
                                    AsmSeed(shape', colorMode', g.g, s))
                      ELSE geo
            /\ randomArrays' = IF RandomDeps(regen)
                               THEN RandomAttributes(randomArrays.run + 1)
                               ELSE randomArrays

AppInit ==
  /\ shape = "Heart"
  /\ colorMode = "Gradient"
  /\ baseColor = "#ff0055"
  /\ secondaryColor = "#4400ff"
  /\ customText = "ZEN"
  /\ photoData = Null
  /\ textData = Null
  /\ particleTextures = <<>>
  /\ pendingLoads = 0
  /\ gen = [g |-> generateShapePositions("Heart", Null), seed |-> 0]
  /\ geo = Assemble("Heart", "Gradient", HexColor["#ff0055"],
                    HexColor["#4400ff"],
                    generateShapePositions("Heart", Null), 0, <<>>, 0)
  /\ randomArrays = RandomAttributes(1)
  /\ notice = FALSE

SetShape(s) ==
  /\ s # shape
  /\ shape' = s
  /\ UNCHANGED <<colorMode, baseColor, secondaryColor, customText, photoData,
                 particleTextures, pendingLoads>>
  /\ TextEffect
  /\ Render(TextRedrawn)
  /\ notice' = FALSE

ApplyTheme(t) ==
  /\ customText' = IF t.text # "" THEN t.text ELSE customText
  /\ shape' = t.shape
  /\ baseColor' = t.c1
  /\ secondaryColor' = t.c2
  /\ colorMode' = t.mode
  /\ UNCHANGED <<photoData, particleTextures, pendingLoads>>
  /\ TextEffect
  /\ Render(TextRedrawn)
  /\ notice' = FALSE

SetColorMode(m) ==
  /\ m # colorMode
  /\ colorMode' = m
  /\ UNCHANGED <<shape, baseColor, secondaryColor, customText, photoData,
                 textData, particleTextures, pendingLoads>>
  /\ Render(FALSE)
  /\ notice' = FALSE

SetBaseColor(c) ==
  /\ c # baseColor
  /\ baseColor' = c
  /\ UNCHANGED <<shape, colorMode, secondaryColor, customText, photoData,
                 textData, particleTextures, pendingLoads>>
  /\ Render(FALSE)
  /\ notice' = FALSE

SetSecondaryColor(c) ==
  /\ c # secondaryColor
  /\ secondaryColor' = c
  /\ UNCHANGED <<shape, colorMode, baseColor, customText, photoData,
                 textData, particleTextures, pendingLoads>>
  /\ Render(FALSE)
  /\ notice' = FALSE

\* the text box is shown with shape TEXT only
SetCustomText(t) ==
  /\ shape = "Text"
  /\ t # customText
  /\ customText' = t
  /\ UNCHANGED <<shape, colorMode, baseColor, secondaryColor, photoData,
                 particleTextures, pendingLoads>>
  /\ TextEffect
  /\ Render(TextRedrawn)
  /\ notice' = FALSE

\* handleImageUpload, once the file is read, decoded and drawn on the canvas
ImageUploaded(b) ==
  /\ photoData' = b
  /\ shape' = "Image"
  /\ colorMode' = "ImageColor"
  /\ UNCHANGED <<baseColor, secondaryColor, customText, particleTextures,
                 pendingLoads>>
  /\ TextEffect
  /\ Render(TRUE)
  /\ notice' = FALSE

\* handleTextureUpload with a file and fewer than 5 textures: the load starts
TextureUploadStarted ==
  /\ Len(particleTextures) < PhotoCap
  /\ pendingLoads < MaxPending
  /\ pendingLoads' = pendingLoads + 1
  /\ UNCHANGED <<shape, colorMode, baseColor, secondaryColor, customText,
                 photoData, textData, particleTextures, gen, geo,
                 randomArrays>>
  /\ notice' = FALSE

\* the alert is shown and the load is started all the same
TextureUploadRejected_starts ==
  /\ Len(particleTextures) >= PhotoCap
  /\ notice' = TRUE
  /\ pendingLoads' = pendingLoads + 1
  /\ UNCHANGED <<shape, colorMode, baseColor, secondaryColor, customText,
                 photoData, textData, particleTextures, gen, geo,
                 randomArrays>>

\* handleTextureUpload with 5 textures or more: the alert, and nothing else
TextureUploadRejected ==
  /\ Len(particleTextures) >= PhotoCap
  /\ notice' = TRUE
  /\ UNCHANGED <<appVars, gen, geo, randomArrays>>

\* the texture uniforms uTexture0 .. uTexture4 of the material (NoTexture:
\* null), written by the render loop
VARIABLE uTexture

\* the texture object a load delivers for place k of the list (from 0): a new
\* object, so not the one uniform k is still bound to
FreshTexture(list, bound) ==
  LET k == Len(list)
  IN  IF k \in DOMAIN bound /\ bound[k] = k + 1 THEN k + 1 + PhotoCap ELSE k + 1

\* the loader's onLoad: setParticleTextures(prev => [...prev, tex])
TextureLoaded ==
  /\ pendingLoads > 0
  /\ pendingLoads' = pendingLoads - 1
  /\ particleTextures' = Append(particleTextures,
                             FreshTexture(particleTextures, uTexture))
  /\ UNCHANGED <<shape, colorMode, baseColor, secondaryColor, customText,
                 photoData, textData>>
  /\ Render(FALSE)
  /\ notice' = FALSE

\* the load fails: no onError callback was given, nothing is appended
TextureLoadFailed ==
  /\ pendingLoads > 0
  /\ pendingLoads' = pendingLoads - 1
  /\ UNCHANGED <<shape, colorMode, baseColor, secondaryColor, customText,
                 photoData, textData, particleTextures, gen, geo,
                 randomArrays>>
  /\ notice' = FALSE

\* the Clear button, shown while the list is not empty
ClearTextures ==
  /\ Len(particleTextures) > 0
  /\ particleTextures' = <<>>
  /\ UNCHANGED <<shape, colorMode, baseColor, secondaryColor, customText,
                 photoData, textData, pendingLoads>>
  /\ Render(FALSE)
  /\ notice' = FALSE


\* ------------------------------------------------------------ one call of
\* generateShapePositions, step by step (geometry.ts)
\*
\* Lengths are in thousandths of a unit. A draw of Math.random() is a value
\* together with the sines and cosines the code takes of it.

VARIABLES
  gType, gImage,     \* the arguments
  gPc,               \* "idle", "call", "loop", "lantern", "done", "RangeError"
  gResult,           \* what the call returned (currentCount, colors)
  gI,                \* the loop index i
  gPositions,        \* positions of the points sampled so far
  gRandom,           \* the next values of Math.random(), per point
  gDepth             \* nested calls of getLanternPoint for the current point

gvars == <<gType, gImage, gPc, gResult, gI, gPositions, gRandom, gDepth>>


\* iterations of the procedural loop that are followed one by one
MaxPoints == 2

\* a cap on retries that a bounded sampler could have
LanternRetryCap == 3

\* nested calls after which the engine's stack is exhausted
StackLimit == LanternRetryCap + 2

\* theta = 2 * PI * u
ThetaDraws ==
  {[u |-> <<0, 1>>, cos |-> 1, sin |-> 0, sin8 |-> 0],
   [u |-> <<1, 4>>, cos |-> 0, sin |-> 1, sin8 |-> 0]}

\* phi = Math.acos(2 * v - 1)
AcosDraws ==
  {[v |-> <<1, 2>>, sin |-> 1, cos |-> 0],
   [v |-> <<0, 1>>, sin |-> 0, cos |-> -1]}

\* phi = Math.PI * (v - 0.5)
PhiDraws ==
  {[v |-> <<1, 2>>, sin |-> 0, cos |-> 1],
   [v |-> <<0, 1>>, sin |-> -1, cos |-> 0]}

\* Math.cbrt(w) in thousandths
CbrtDraws ==
  {[w |-> <<0, 1>>, root |-> 0],
   [w |-> <<1, 8>>, root |-> 500],
   [w |-> <<27, 64>>, root |-> 750]}

\* Math.sqrt(w) in thousandths
SqrtDraws ==
  {[w |-> <<0, 1>>, root |-> 0],
   [w |-> <<1, 4>>, root |-> 500],
   [w |-> <<81, 100>>, root |-> 900]}

\* draws compared with 0.92 and 0.985, and the draws that scale the offset
GateDraws == {<<1, 2>>, <<99, 100>>}

OffsetDraws == {<<1, 2>>}

Abs(n) == IF n < 0 THEN -n ELSE n

\* randomInSphere(radius): u, v and the radial draw
randomInSphere(radius, d) ==
  LET r == d.w.root * radius
  IN  <<r * d.v.sin * d.u.cos, r * d.v.sin * d.u.sin, r * d.v.cos>>

SphereDraws == [u : ThetaDraws, v : AcosDraws, w : CbrtDraws]

\* one call of getLanternPoint up to its test: the point, and whether the
\* call returns it or calls getLanternPoint again
LanternSample(d) ==
  LET ridges10 == 10 + d.u.sin8
      rBase == 4
      r == (rBase * ridges10 * d.w.root) \div 10
      x == r * d.v.cos * d.u.cos
      z == r * d.v.cos * d.u.sin
      y == (r * d.v.sin * 13) \div 10
  IN  [point |-> <<x, y, z>>, again |-> Abs(y) > 4500]

LanternDraws == [u : ThetaDraws, v : PhiDraws, w : SqrtDraws]

\* case LANTERN after getLanternPoint returned p: the tassel and the string
LanternCase(p, t) ==
  LET tassel == Lt(<<23, 25>>, t.tassel)
      y1 == IF tassel THEN -4500 - (t.tasselLen[1] * 3500) \div t.tasselLen[2]
            ELSE p[2]
      x1 == IF tassel THEN (p[1] * 15) \div 100 ELSE p[1]
      z1 == IF tassel THEN (p[3] * 15) \div 100 ELSE p[3]
      string == Lt(<<197, 200>>, t.string)
      y2 == IF string THEN 4500 + (t.stringLen[1] * 2500) \div t.stringLen[2]
            ELSE y1
      x2 == IF string THEN (x1 * 5) \div 100 ELSE x1
      z2 == IF string THEN (z1 * 5) \div 100 ELSE z1
  IN  <<x2, y2, z2>>

TasselDraws ==
  [tassel : GateDraws, tasselLen : OffsetDraws, string : GateDraws,
   stringLen : OffsetDraws]

\* shapes whose case is followed draw by draw; the other cases of the switch
\* are recorded as "case" points without coordinates
SphereCases == {"Sphere", "Image", "Text"}

Origin == <<0, 0, 0>>

\* the draws of a case that is not followed
NoDraws == [u |-> "case", v |-> "case", w |-> "case"]

GenIdle ==
  /\ gType = "Sphere"
  /\ gImage = Null
  /\ gPc = "idle"
  /\ gResult = generateShapePositions("Sphere", Null)
  /\ gI = 0
  /\ gPositions = <<>>
  /\ gRandom = <<>>
  /\ gDepth = 0

GenInit ==
  /\ AppInit
  /\ gType \in ShapeType \cup {UnknownShape}
  /\ gImage \in IF gType \in {"Image", "Text"}
                THEN {Null} \cup BufferNames
                ELSE {Null, "red"}
  /\ gPc = "call"
  /\ gResult = generateShapePositions("Sphere", Null)
  /\ gI = 0
  /\ gPositions = <<>>
  /\ gRandom = <<>>
  /\ gDepth = 0

\* lines 58-134: the pixel regime fills the buffers and returns; otherwise the
\* procedural loop starts
GenCall ==
  /\ gPc = "call"
  /\ gResult' = generateShapePositions(gType, gImage)
  /\ gPc' = IF PixelRegime(gType, gImage) THEN "done" ELSE "loop"
  /\ UNCHANGED <<gType, gImage, gI, gPositions, gRandom, gDepth>>

\* the loop is left: all points sampled (the first MaxPoints are followed)
LoopExit ==
  /\ gPc = "loop"
  /\ gI >= Min(MaxPoints, gResult.currentCount)
  /\ gPc' = "done"
  /\ UNCHANGED <<gType, gImage, gResult, gI, gPositions, gRandom, gDepth>>

StorePoint(pt, d) ==
  /\ gPositions' = Append(gPositions, pt)
  /\ gRandom' = Append(gRandom, d)
  /\ gI' = gI + 1

InLoop == gPc = "loop" /\ gI < Min(MaxPoints, gResult.currentCount)

\* case SPHERE, IMAGE, TEXT
LoopSphere ==
  /\ InLoop
  /\ gType \in SphereCases
  /\ \E d \in SphereDraws :
       StorePoint([kind |-> "xyz", p |-> randomInSphere(5, d)], d)
  /\ UNCHANGED <<gType, gImage, gPc, gResult, gDepth>>

\* case LANTERN: getLanternPoint() is called
LoopLantern ==
  /\ InLoop
  /\ gType = "Lantern"
  /\ gPc' = "lantern"
  /\ gDepth' = 1
  /\ UNCHANGED <<gType, gImage, gResult, gI, gPositions, gRandom>>

\* getLanternPoint: |y| > 4.5, the function calls itself
LanternRetry ==
  /\ gPc = "lantern"
  /\ gDepth < StackLimit
  /\ \E d \in LanternDraws : LanternSample(d).again
  /\ gDepth' = gDepth + 1
  /\ UNCHANGED <<gType, gImage, gPc, gResult, gI, gPositions, gRandom>>

\* getLanternPoint: the calls are nested to the engine's limit and the next
\* sample is rejected too
LanternOverflow ==
  /\ gPc = "lantern"
  /\ gDepth >= StackLimit
  /\ \E d \in LanternDraws : LanternSample(d).again
  /\ gPc' = "RangeError"
  /\ UNCHANGED <<gType, gImage, gResult, gI, gPositions, gRandom, gDepth>>

\* getLanternPoint returns a point; the rest of case LANTERN
LanternAccept ==
  /\ gPc = "lantern"
  /\ \E d \in LanternDraws, t \in TasselDraws :
       /\ ~LanternSample(d).again
       /\ StorePoint([kind |-> "xyz",
                      p |-> LanternCase(LanternSample(d).point, t)], d)
  /\ gPc' = "loop"
  /\ gDepth' = 0
  /\ UNCHANGED <<gType, gImage, gResult>>

\* the cases of the other shapes of the enumeration
LoopOtherCase ==
  /\ InLoop
  /\ gType \in ShapeType \ (SphereCases \cup {"Lantern"})
  /\ StorePoint([kind |-> "case", p |-> Origin], NoDraws)
  /\ UNCHANGED <<gType, gImage, gPc, gResult, gDepth>>

\* no case matches and the switch has no default: x, y, z stay 0
LoopNoCase ==
  /\ InLoop
  /\ gType \notin ShapeType
  /\ \E d \in SphereDraws : StorePoint([kind |-> "xyz", p |-> Origin], d)
  /\ UNCHANGED <<gType, gImage, gPc, gResult, gDepth>>

\* ------------------------------------------------------------ decimals
\* A number is <<n, e>>, standing for n / 10^e.

RECURSIVE Pow10(_)
Pow10(e) == IF e = 0 THEN 1 ELSE 10 * Pow10(e - 1)

RECURSIVE DNorm(_)
DNorm(d) ==
  IF d[2] > 0 /\ d[1] % 10 = 0 THEN DNorm(<<d[1] \div 10, d[2] - 1>>) ELSE d

Max(a, b) == IF a > b THEN a ELSE b

\* the numerator of d at exponent e >= d[2]
DAt(d, e) == d[1] * Pow10(e - d[2])

DAdd(a, b) ==
  LET e == Max(a[2], b[2]) IN DNorm(<<DAt(a, e) + DAt(b, e), e>>)

DSub(a, b) ==
  LET e == Max(a[2], b[2]) IN DNorm(<<DAt(a, e) - DAt(b, e), e>>)

DMul(a, b) == DNorm(<<a[1] * b[1], a[2] + b[2]>>)

DLess(a, b) ==
  LET e == Max(a[2], b[2]) IN DAt(a, e) < DAt(b, e)

DLeq(a, b) == ~DLess(b, a)

DAbs(a) == <<Abs(a[1]), a[2]>>

DMax(a, b) == IF DLess(a, b) THEN b ELSE a

DMin(a, b) == IF DLess(a, b) THEN a ELSE b

\* a / b where the quotient has at most 4 more decimals
DDiv(a, b) ==
  LET k == CHOOSE j \in 0..4 :
             (a[1] * Pow10(b[2] + j)) % (b[1] * Pow10(a[2])) = 0
  IN  DNorm(<<(a[1] * Pow10(b[2] + k)) \div (b[1] * Pow10(a[2])), k>>)

D(n) == <<n, 0>>

\* ------------------------------------------------------------ WebcamHandler.tsx

VARIABLES
  wPc,            \* "render" (effect not run yet), "running", "failed", "unmounted"
  isActive,       \* the effect's closure flag
  hands,          \* the detector: "none", "open", "closed"
  camera,         \* getUserMedia: "idle", "pending", "granted", "rejected"
  stream,         \* the MediaStream's tracks: "none", "live", "stopped"
  srcObject,      \* videoRef.current.srcObject is the stream
  metadata,       \* onloadedmetadata has fired
  detecting,      \* a requestAnimationFrame(detectFrame) is scheduled
  sending,        \* detectFrame awaits hands.send
  hasError, isLoaded,
  prevGesture,    \* prevRotation, prevZoom, prevExpansion
  detections,     \* results delivered so far
  cameraReady,    \* App state set by handleCameraStatus
  gestureRef,     \* App's gestureStateRef.current
  published       \* the record of the latest onGestureUpdate call (any: one was made)

camVars ==
  <<wPc, isActive, hands, camera, stream, srcObject, metadata, detecting,
    sending, hasError, isLoaded, prevGesture, detections, cameraReady>>

\* results delivered in one run
MaxDetections == 2

\* useRef initial value (App.tsx 72-78)
NeutralGesture ==
  [expansion |-> D(0), rotation |-> D(0), zoom |-> D(1),
   isPeaceSign |-> FALSE, isNamaste |-> FALSE]

\* what one detector result measures: the number of hands, the tilt
\* -atan2(dx, dy), the wrist-to-knuckle distance, whether the peace-sign test
\* passes, the distance between the wrists, the thumb-to-pinky distance
HandInputs ==
  {[hands |-> 0, tilt |-> D(0), palmSize |-> D(0), peace |-> FALSE,
    wristDist |-> D(0), handSpread |-> D(0)],
   [hands |-> 1, tilt |-> D(1), palmSize |-> <<16, 2>>, peace |-> TRUE,
    wristDist |-> D(0), handSpread |-> <<184, 3>>],
   [hands |-> 2, tilt |-> D(0), palmSize |-> <<6, 2>>, peace |-> FALSE,
    wristDist |-> <<7, 1>>, handSpread |-> D(0)]}

\* lines 96-169: the raw gesture of one result
GestureLogic(h) ==
  IF h.hands = 0 THEN NeutralGesture
  ELSE
    LET zoom0 == DAdd(D(1), DMul(DSub(h.palmSize, <<6, 2>>), D(30)))
        zoom == DMax(<<2, 1>>, DMin(D(5), zoom0))
        twoExp == DMax(D(0), DMul(DSub(h.wristDist, <<2, 1>>), D(4)))
        close == DLess(h.wristDist, <<15, 2>>)
        spreadRatio == DDiv(h.handSpread,
                            IF h.palmSize[1] = 0 THEN <<1, 2>> ELSE h.palmSize)
        oneExp0 == DMul(DSub(spreadRatio, <<65, 2>>), D(6))
        oneExp == DMax(<<-15, 1>>, DMin(D(8), oneExp0))
    IN  [expansion |-> IF h.hands >= 2
                       THEN (IF close THEN D(0) ELSE twoExp)
                       ELSE oneExp,
         rotation |-> h.tilt,
         zoom |-> zoom,
         isPeaceSign |-> h.peace,
         isNamaste |-> IF h.hands >= 2 THEN close
                       ELSE DLess(spreadRatio, <<55, 2>>)]

\* lines 171-175: prev + (value - prev) * alpha
Smooth(prev, value, alpha) == DAdd(prev, DMul(DSub(value, prev), alpha))

SmoothAlpha == <<3, 1>>

\* lines 171-181: the record handed to onGestureUpdate
SmoothedGesture(prev, raw) ==
  [expansion |-> Smooth(prev.expansion, raw.expansion, SmoothAlpha),
   rotation |-> Smooth(prev.rotation, raw.rotation, SmoothAlpha),
   zoom |-> Smooth(prev.zoom, raw.zoom, SmoothAlpha),
   isPeaceSign |-> raw.isPeaceSign,
   isNamaste |-> raw.isNamaste]

CamInit ==
  /\ wPc = "render"
  /\ isActive = FALSE
  /\ hands = "none"
  /\ camera = "idle"
  /\ stream = "none"
  /\ srcObject = FALSE
  /\ metadata = FALSE
  /\ detecting = FALSE
  /\ sending = FALSE
  /\ hasError = FALSE
  /\ isLoaded = FALSE
  /\ prevGesture = [expansion |-> D(0), rotation |-> D(0), zoom |-> D(1)]
  /\ detections = 0
  /\ cameraReady = FALSE
  /\ gestureRef = NeutralGesture
  /\ published = [any |-> FALSE, record |-> NeutralGesture]

\* the early return is left out: the effect goes on to start the camera
EffectNoDetector_proceeds ==
  /\ wPc = "render"
  /\ wPc' = "running"
  /\ hasError' = TRUE
  /\ cameraReady' = FALSE
  /\ isActive' = TRUE
  /\ hands' = "open"
  /\ camera' = "pending"
  /\ UNCHANGED <<stream, srcObject, metadata, detecting, sending, isLoaded,
                 prevGesture, detections, gestureRef, published>>

\* the effect with no Hands class: setHasError(true), onCameraStatus(false),
\* and no cleanup function is returned
EffectNoDetector ==
  /\ wPc = "render"
  /\ wPc' = "failed"
  /\ hasError' = TRUE
  /\ cameraReady' = FALSE
  /\ UNCHANGED <<isActive, hands, camera, stream, srcObject, metadata,
                 detecting, sending, isLoaded, prevGesture, detections,
                 gestureRef, published>>

\* the effect with the Hands class: the detector is created and startCamera()
\* requests the camera
EffectStart ==
  /\ wPc = "render"
  /\ wPc' = "running"
  /\ isActive' = TRUE
  /\ hands' = "open"
  /\ camera' = "pending"
  /\ UNCHANGED <<stream, srcObject, metadata, detecting, sending, hasError,
                 isLoaded, prevGesture, detections, cameraReady, gestureRef,
                 published>>

\* getUserMedia resolves with a live stream; it is attached when isActive
CameraGranted ==
  /\ camera = "pending"
  /\ camera' = "granted"
  /\ stream' = "live"
  /\ srcObject' = isActive
  /\ UNCHANGED <<wPc, isActive, hands, metadata, detecting, sending, hasError,
                 isLoaded, prevGesture, detections, cameraReady, gestureRef,
                 published>>

\* getUserMedia rejects: the catch block
CameraRejected ==
  /\ camera = "pending"
  /\ camera' = "rejected"
  /\ hasError' = IF isActive THEN TRUE ELSE hasError
  /\ cameraReady' = IF isActive THEN FALSE ELSE cameraReady
  /\ UNCHANGED <<wPc, isActive, hands, stream, srcObject, metadata, detecting,
                 sending, isLoaded, prevGesture, detections, gestureRef,
                 published>>

\* onloadedmetadata of the video the stream is attached to
MetadataLoaded ==
  /\ srcObject
  /\ ~metadata
  /\ metadata' = TRUE
  /\ detecting' = IF isActive THEN TRUE ELSE detecting
  /\ UNCHANGED <<wPc, isActive, hands, camera, stream, srcObject, sending,
                 hasError, isLoaded, prevGesture, detections, cameraReady,
                 gestureRef, published>>

\* detectFrame, called by the animation frame: the video frame is sent
DetectFrame ==
  /\ detecting
  /\ detections < MaxDetections
  /\ detecting' = FALSE
  /\ sending' = isActive
  /\ UNCHANGED <<wPc, isActive, hands, camera, stream, srcObject, metadata,
                 hasError, isLoaded, prevGesture, detections, cameraReady,
                 gestureRef, published>>

\* a record is kept until the frame has read the one before it
handleGestureUpdate_keepFirst(cell, newState) ==
  IF cell = NeutralGesture THEN newState ELSE cell

\* App.tsx 171-173: gestureStateRef.current = newState
handleGestureUpdate(cell, newState) == newState

\* onResults and detectFrame go on without looking at isActive
Results_noGuard(h) ==
  /\ sending
  /\ sending' = FALSE
  /\ detecting' = TRUE
  /\ detections' = detections + 1
  /\ LET g == SmoothedGesture(prevGesture, GestureLogic(h))
     IN  /\ isLoaded' = TRUE
         /\ cameraReady' = TRUE
         /\ prevGesture' = [expansion |-> g.expansion,
                            rotation |-> g.rotation, zoom |-> g.zoom]
         /\ gestureRef' = handleGestureUpdate(gestureRef, g)
         /\ published' = [any |-> TRUE, record |-> g]
  /\ UNCHANGED <<wPc, isActive, hands, camera, stream, srcObject, metadata,
                 hasError>>

\* the send completes: onResults runs (and returns at once when not active),
\* then detectFrame schedules itself again if still active
Results(h) ==
  /\ sending
  /\ sending' = FALSE
  /\ detecting' = isActive
  /\ detections' = detections + 1
  /\ IF isActive
     THEN LET g == SmoothedGesture(prevGesture, GestureLogic(h))
          IN  /\ isLoaded' = TRUE
              /\ cameraReady' = TRUE
              /\ prevGesture' = [expansion |-> g.expansion,
                                 rotation |-> g.rotation, zoom |-> g.zoom]
              /\ gestureRef' = handleGestureUpdate(gestureRef, g)
              /\ published' = [any |-> TRUE, record |-> g]
     ELSE UNCHANGED <<isLoaded, cameraReady, prevGesture, gestureRef,
                      published>>
  /\ UNCHANGED <<wPc, isActive, hands, camera, stream, srcObject, metadata,
                 hasError>>

\* the effect's cleanup, at unmount
Unmount ==
  /\ wPc = "running"
  /\ wPc' = "unmounted"
  /\ isActive' = FALSE
  /\ detecting' = FALSE
  /\ hands' = IF hands = "open" THEN "closed" ELSE hands
  /\ stream' = IF srcObject THEN "stopped" ELSE stream
  /\ UNCHANGED <<camera, srcObject, metadata, sending, hasError, isLoaded,
                 prevGesture, detections, cameraReady, gestureRef, published>>

\* unmount after the effect returned without a cleanup
UnmountFailed ==
  /\ wPc = "failed"
  /\ wPc' = "unmounted"
  /\ UNCHANGED <<isActive, hands, camera, stream, srcObject, metadata,
                 detecting, sending, hasError, isLoaded, prevGesture,
                 detections, cameraReady, gestureRef, published>>

\* ------------------------------------------------------------ useFrame
\* (Particles.tsx 323-368). uTime, uScale, uOpacity, uPixelRatio and uSize are
\* set from the clock and from props and are left out.

VARIABLES
  uExpansion,     \* material.uniforms.uExpansion.value
  meshScale,      \* meshRef.current.scale (its three components are equal)
  uHasPhoto,
  blending,       \* "Additive" or "Normal"
  frames,         \* frames run so far
  lastFrame,      \* what the latest frame read and started from
  steady          \* frames run in a row with the same gesture record

frameVars ==
  <<uExpansion, meshScale, uHasPhoto, uTexture, blending, frames, lastFrame,
    steady>>

refVars == <<gestureRef, published>>

runVars == <<camVars, refVars, frameVars>>

\* frames followed in one run
MaxFrames == 4

\* the blend factor of both lerps
FrameAlpha == <<1, 1>>

\* the step is a tenth too long
MathLerp_overshoot(x, y, t) == DAdd(x, DMul(DSub(y, x), DAdd(t, D(1))))

\* THREE.MathUtils.lerp(x, y, t): (1 - t) * x + t * y
MathLerp(x, y, t) == DAdd(DMul(DSub(D(1), t), x), DMul(t, y))

\* THREE.Vector3.lerp(v, alpha), one component: x += (v - x) * alpha
VecLerp(x, v, alpha) == DAdd(x, DMul(DSub(v, x), alpha))

\* the null a texture uniform starts with (textures are numbered from 1)
NoTexture == 0

\* a uniform that is bound is left alone
BindTextures_once(bound, textures) ==
  [k \in 0..(PhotoCap - 1) |->
     IF k < Len(textures) /\ bound[k] = NoTexture
     THEN textures[k + 1] ELSE bound[k]]

\* lines 353-360: texture k of the list is bound to uTexture<k>
BindTextures(bound, textures) ==
  [k \in 0..(PhotoCap - 1) |->
     IF k < Len(textures) THEN textures[k + 1] ELSE bound[k]]

\* the else branch is left out
BlendingFor_noElse(current, textures) ==
  IF Len(textures) > 0 THEN "Normal" ELSE current

\* lines 352-367: material.blending after the frame
BlendingFor(current, textures) ==
  IF Len(textures) > 0 THEN "Normal" ELSE "Additive"

NoTextures == [k \in 0..(PhotoCap - 1) |-> NoTexture]

FrameInit ==
  /\ uExpansion = D(0)
  /\ meshScale = D(1)
  /\ uHasPhoto = 0
  /\ uTexture = NoTextures
  /\ blending = "Additive"
  /\ frames = 0
  /\ lastFrame = [ran |-> FALSE, seen |-> NeutralGesture, latest |-> [any |-> FALSE, record |-> NeutralGesture],
                  fromExpansion |-> D(0), fromScale |-> D(1), textures |-> 0,
                  list |-> <<>>]
  /\ steady = [n |-> 0, gapExpansion |-> D(0), gapScale |-> D(0)]

\* the expansion is forced to 0 while the hands are together
FrameResult_namaste(cur, gesture, textures) ==
  [uExpansion |-> IF gesture.isNamaste THEN D(0)
                  ELSE MathLerp(cur.uExpansion, gesture.expansion, FrameAlpha),
   meshScale |-> VecLerp(cur.meshScale, gesture.zoom, FrameAlpha),
   uHasPhoto |-> IF Len(textures) > 0 THEN 1 ELSE 0,
   uTexture |-> IF Len(textures) > 0
                THEN BindTextures(cur.uTexture, textures)
                ELSE cur.uTexture,
   blending |-> BlendingFor(cur.blending, textures)]

\* lines 341-367: what one frame leaves in the uniforms, the mesh scale and
\* the material, from what the frame before left
FrameResult(cur, gesture, textures) ==
  [uExpansion |-> MathLerp(cur.uExpansion, gesture.expansion, FrameAlpha),
   meshScale |-> VecLerp(cur.meshScale, gesture.zoom, FrameAlpha),
   uHasPhoto |-> IF Len(textures) > 0 THEN 1 ELSE 0,
   uTexture |-> IF Len(textures) > 0
                THEN BindTextures(cur.uTexture, textures)
                ELSE cur.uTexture,
   blending |-> BlendingFor(cur.blending, textures)]

\* the render state as one record
RenderState ==
  [uExpansion |-> uExpansion, meshScale |-> meshScale, uHasPhoto |-> uHasPhoto,
   uTexture |-> uTexture, blending |-> blending]

\* the useFrame callback
RenderFrame ==
  LET gesture == gestureRef
      same == lastFrame.ran /\ lastFrame.seen = gesture
      out == FrameResult(RenderState, gesture, particleTextures)
  IN  /\ wPc # "unmounted"
      /\ uExpansion' = out.uExpansion
      /\ meshScale' = out.meshScale
      /\ uHasPhoto' = out.uHasPhoto
      /\ uTexture' = out.uTexture
      /\ blending' = out.blending
      /\ lastFrame' = [ran |-> TRUE, seen |-> gesture, latest |-> published,
                       fromExpansion |-> uExpansion, fromScale |-> meshScale,
                       textures |-> Len(particleTextures),
                       list |-> particleTextures]
      /\ steady' =
           IF same
           THEN [steady EXCEPT !.n = Min(steady.n + 1, MaxFrames + 1)]
           ELSE [n |-> 1,
                 gapExpansion |-> DAbs(DSub(gesture.expansion, uExpansion)),
                 gapScale |-> DAbs(DSub(gesture.zoom, meshScale))]

\* a frame of a run in which the frames are counted
FrameTick ==
  /\ frames < MaxFrames
  /\ frames' = frames + 1
  /\ RenderFrame

\* a frame of a run in which the gesture record stays neutral
FrameFree ==
  /\ RenderFrame
  /\ UNCHANGED frames

\* ------------------------------------------------------------ the colour loop
\* (Particles.tsx 228-247), slot by slot

VARIABLES
  lMode, lC1, lC2, lBaseCount, lSeed,   \* what the loop reads
  lPc,                                  \* "idle", "loop", "done"
  lI,                                   \* the loop index i
  lPrev, lCur                           \* the colours of slots i - 2 and i - 1

loopVars == <<lMode, lC1, lC2, lBaseCount, lSeed, lPc, lI, lPrev, lCur>>

\* the short loops that are followed besides the loop over PROCEDURAL_COUNT
ShortCount == 3

\* base and secondary colours the loop is run with
ColourPairs == {<<"#ff0055", "#4400ff">>, <<"#ff0000", "#ffff00">>}

NoColour == <<>>

LoopIdle ==
  /\ lMode = "Gradient"
  /\ lC1 = "#ff0055"
  /\ lC2 = "#4400ff"
  /\ lBaseCount = 0
  /\ lSeed = 0
  /\ lPc = "idle"
  /\ lI = 0
  /\ lPrev = NoColour
  /\ lCur = NoColour

LoopInit ==
  /\ lMode \in ColorMode
  /\ \E pair \in ColourPairs : lC1 = pair[1] /\ lC2 = pair[2]
  /\ lBaseCount \in IF lMode = "Gradient"
                    THEN {1, ShortCount, PROCEDURAL_COUNT}
                    ELSE {1, ShortCount}
  /\ lSeed \in IF lMode = "Rainbow" THEN Seeds ELSE {0}
  /\ lPc = "loop"
  /\ lI = 0
  /\ lPrev = NoColour
  /\ lCur = NoColour

\* one iteration: colors[i*3..] = r, g, b
ColourLoopStep ==
  /\ lPc = "loop"
  /\ lI < lBaseCount
  /\ lCur' = SynthColor(lMode, HexColor[lC1], HexColor[lC2], lBaseCount,
                        lSeed, lI)
  /\ lPrev' = lCur
  /\ lI' = lI + 1
  /\ UNCHANGED <<lMode, lC1, lC2, lBaseCount, lSeed, lPc>>

ColourLoopExit ==
  /\ lPc = "loop"
  /\ lI >= lBaseCount
  /\ lPc' = "done"
  /\ UNCHANGED <<lMode, lC1, lC2, lBaseCount, lSeed, lI, lPrev, lCur>>

\* ------------------------------------------------------------ vertex shader
\* main() up to "pos *= uScale" (Particles.tsx 52-61). Lengths are in
\* ten-thousandths of a unit; a float is a fraction <<n, d>>, NaN being <<0, 0>>.

VARIABLES
  vPosition,      \* the position attribute, with its length
  vExpansion,     \* uExpansion
  vScale,         \* uScale
  vUndef,         \* what normalize() gives for the zero vector
  vPc,            \* "in", "out"
  vOut            \* pos after step 2 and after step 3

shaderVars == <<vPosition, vExpansion, vScale, vUndef, vPc, vOut>>

RECURSIVE GCD(_, _)
GCD(a, b) == IF b = 0 THEN a ELSE GCD(b, a % b)

\* 0 / 0
NaN == <<0, 0>>

Frac(n, d) ==
  LET g == GCD(Abs(n), Abs(d))
      sgn == IF d < 0 THEN -1 ELSE 1
  IN  IF g = 0 THEN <<0, 1>> ELSE <<sgn * (n \div g), sgn * (d \div g)>>

FMul(a, b) ==
  IF a = NaN \/ b = NaN THEN NaN ELSE Frac(a[1] * b[1], a[2] * b[2])

FAdd(a, b) ==
  IF a = NaN \/ b = NaN THEN NaN
  ELSE Frac(a[1] * b[2] + b[1] * a[2], a[2] * b[2])

I(n) == <<n, 1>>

Vec(p) == <<I(p[1]), I(p[2]), I(p[3])>>

\* positions with their lengths: the origin, a point nearer to it than 0.001,
\* and points of the cloud
ShaderPoints ==
  {[p |-> <<0, 0, 0>>, len |-> 0],
   [p |-> <<0, 0, 5>>, len |-> 5],
   [p |-> <<30000, 40000, 0>>, len |-> 50000],
   [p |-> <<0, -20000, 0>>, len |-> 20000],
   [p |-> <<20000, 10000, -20000>>, len |-> 30000],
   [p |-> <<0, 0, 10>>, len |-> 10]}

\* values of uExpansion, as decimals
ShaderExpansions == {D(0), D(1), <<-5, 1>>, <<2, 1>>, D(3)}

ShaderScales == {1, 2}

\* normalize(vec3(0.0)) divides 0 by 0: the result is undefined
UndefinedDirs == {<<NaN, NaN, NaN>>, <<I(0), I(0), I(0)>>}

\* normalize(pos)
Normalize(pt, undef) ==
  IF pt.len = 0 THEN undef
  ELSE <<Frac(pt.p[1], pt.len), Frac(pt.p[2], pt.len), Frac(pt.p[3], pt.len)>>

\* the guard is left out
ShaderDir_noGuard(pt, undef) == Normalize(pt, undef)

\* vec3 dir = normalize(pos); if (length(pos) < 0.001) dir = vec3(0, 1, 0)
ShaderDir(pt, undef) ==
  IF pt.len < 10 THEN <<I(0), I(1), I(0)>> ELSE Normalize(pt, undef)

\* pos += dir * uExpansion * 8.0, one unit being 10000
Expand(pt, undef, e) ==
  LET dir == ShaderDir(pt, undef)
      k == Frac(e[1] * 8 * 10000, Pow10(e[2]))
      pos == Vec(pt.p)
  IN  <<FAdd(pos[1], FMul(dir[1], k)), FAdd(pos[2], FMul(dir[2], k)),
        FAdd(pos[3], FMul(dir[3], k))>>

\* pos *= uScale
Scaled(pos, sc) == <<FMul(pos[1], I(sc)), FMul(pos[2], I(sc)), FMul(pos[3], I(sc))>>

ShaderIdle ==
  /\ vPosition = [p |-> <<0, 0, 0>>, len |-> 0]
  /\ vExpansion = D(0)
  /\ vScale = 1
  /\ vUndef = <<NaN, NaN, NaN>>
  /\ vPc = "idle"
  /\ vOut = [expanded |-> Vec(<<0, 0, 0>>), scaled |-> Vec(<<0, 0, 0>>)]

ShaderInit ==
  /\ vPosition \in ShaderPoints
  /\ vExpansion \in ShaderExpansions
  /\ vScale \in ShaderScales
  /\ vUndef \in UndefinedDirs
  /\ vPc = "in"
  /\ vOut = [expanded |-> Vec(<<0, 0, 0>>), scaled |-> Vec(<<0, 0, 0>>)]

VertexMain ==
  /\ vPc = "in"
  /\ vPc' = "out"
  /\ vOut' = [expanded |-> Expand(vPosition, vUndef, vExpansion),
              scaled |-> Scaled(Expand(vPosition, vUndef, vExpansion), vScale)]
  /\ UNCHANGED <<vPosition, vExpansion, vScale, vUndef>>

\* ------------------------------------------------------------ the shuffle
\* shuffleArray and the pixel regime's fill loop (geometry.ts 50-56, 105-126),
\* followed step by step on a short list of kept pixels with a capacity to
\* match.

VARIABLES
  sKept,          \* validPixels as the scan left it
  sArray,         \* validPixels now
  sCap,           \* the capacity the list is compared with
  sPc,            \* "idle", "test", "shuffle", "fill", "done"
  sI,             \* the loop index of the loop that is running
  sActive,        \* activeCount
  sOut            \* positions and colours written so far, slot by slot

shuffleVars == <<sKept, sArray, sCap, sPc, sI, sActive, sOut>>

\* the longest list of kept pixels that is followed
MaxKept == 4

\* the capacity the short lists are compared with (MAX_PARTICLE_COUNT in
\* the code)
ShuffleCap == 2

\* the width of the scanned picture
ScanWidth == 2

\* the n-th kept pixel of a picture ScanWidth wide: x = px / width - 0.5 and
\* y = -(py / height - 0.5), in units of drawW and drawH, and its colour
KeptPixel(n, height) ==
  LET px == n % ScanWidth
      py == n \div ScanWidth
  IN  [x |-> <<2 * px - ScanWidth, 2 * ScanWidth>>,
       y |-> <<height - 2 * py, 2 * height>>,
       rgb |-> <<Byte((n % 2) * 255), Byte(0), Byte(128)>>]

KeptList(k) ==
  [n \in 1..k |-> KeptPixel(n - 1, (k + ScanWidth - 1) \div ScanWidth)]

\* array[i] is overwritten and array[j] is left as it was
Swap_copy(array, i, j) == [array EXCEPT ![i + 1] = array[j + 1]]

\* [array[i], array[j]] = [array[j], array[i]]
Swap(array, i, j) ==
  [array EXCEPT ![i + 1] = array[j + 1], ![j + 1] = array[i + 1]]

ShuffleIdle ==
  /\ sKept = <<>>
  /\ sArray = <<>>
  /\ sCap = ShuffleCap
  /\ sPc = "idle"
  /\ sI = 0
  /\ sActive = 0
  /\ sOut = <<>>

ShuffleInit ==
  /\ \E k \in 1..MaxKept : sKept = KeptList(k) /\ sArray = KeptList(k)
  /\ sCap = ShuffleCap
  /\ sPc = "test"
  /\ sI = 0
  /\ sActive = 0
  /\ sOut = <<>>

\* validPixels.length > MAX_PARTICLE_COUNT: shuffleArray is entered
ShuffleEnter ==
  /\ sPc = "test"
  /\ Len(sArray) > sCap
  /\ sPc' = "shuffle"
  /\ sI' = Len(sArray) - 1
  /\ UNCHANGED <<sKept, sArray, sCap, sActive, sOut>>

\* the else branch: activeCount = validPixels.length
ShuffleSkip ==
  /\ sPc = "test"
  /\ Len(sArray) <= sCap
  /\ sPc' = "fill"
  /\ sActive' = Len(sArray)
  /\ sI' = 0
  /\ UNCHANGED <<sKept, sArray, sCap, sOut>>

\* one iteration of shuffleArray: j = floor(random * (i + 1))
ShuffleStep ==
  /\ sPc = "shuffle"
  /\ sI > 0
  /\ \E j \in 0..sI : sArray' = Swap(sArray, sI, j)
  /\ sI' = sI - 1
  /\ UNCHANGED <<sKept, sCap, sPc, sActive, sOut>>

\* shuffleArray returns: activeCount = MAX_PARTICLE_COUNT
ShuffleReturn ==
  /\ sPc = "shuffle"
  /\ sI <= 0
  /\ sPc' = "fill"
  /\ sActive' = sCap
  /\ sI' = 0
  /\ UNCHANGED <<sKept, sArray, sCap, sOut>>

\* one iteration of the fill loop
FillStep ==
  /\ sPc = "fill"
  /\ sI < sActive
  /\ sOut' = Append(sOut, [x |-> sArray[sI + 1].x, y |-> sArray[sI + 1].y,
                           rgb |-> sArray[sI + 1].rgb])
  /\ sI' = sI + 1
  /\ UNCHANGED <<sKept, sArray, sCap, sPc, sActive>>

FillReturn ==
  /\ sPc = "fill"
  /\ sI >= sActive
  /\ sPc' = "done"
  /\ UNCHANGED <<sKept, sArray, sCap, sI, sActive, sOut>>

\* ------------------------------------------------------------ one point of
\* the Flag case (geometry.ts 453-495)

VARIABLES
  fU, fV,         \* the draws u and v
  fStar,          \* the draw compared with 0.85
  fPc,            \* "idle", "in", "out"
  fPoint          \* x, y and the colour written

flagVars == <<fU, fV, fStar, fPc, fPoint>>

\* values of Math.random() on both sides of the thresholds 0.4, 0.5 and 0.85
FlagDrawsU == {<<0, 1>>, <<3, 10>>, <<39, 100>>, <<2, 5>>, <<1, 2>>, <<9, 10>>}

FlagDrawsV == {<<0, 1>>, <<1, 2>>, <<51, 100>>, <<9, 10>>}

FlagDrawsStar == {<<1, 2>>, <<17, 20>>, <<9, 10>>}

\* x = (u - 0.5) * w, y = (v - 0.5) * h with w = 16, h = 10, and the colour
FlagPoint(u, v, star) ==
  [x |-> FMul(FAdd(u, <<-1, 2>>), I(16)),
   y |-> FMul(FAdd(v, <<-1, 2>>), I(10)),
   color |-> FlagColorOf(u, v, star)]

FlagIdle ==
  /\ fU = <<0, 1>>
  /\ fV = <<0, 1>>
  /\ fStar = <<0, 1>>
  /\ fPc = "idle"
  /\ fPoint = FlagPoint(<<0, 1>>, <<0, 1>>, <<0, 1>>)

FlagInit ==
  /\ fU \in FlagDrawsU
  /\ fV \in FlagDrawsV
  /\ fStar \in FlagDrawsStar
  /\ fPc = "in"
  /\ fPoint = FlagPoint(<<0, 1>>, <<0, 1>>, <<0, 1>>)

\* the case body for one i
FlagCase ==
  /\ fPc = "in"
  /\ fPc' = "out"
  /\ fPoint' = FlagPoint(fU, fV, fStar)
  /\ UNCHANGED <<fU, fV, fStar>>

\* ------------------------------------------------------------ holiday
\* detection, the effect run once at startup (App.tsx 111-169)

VARIABLES
  hToday,         \* new Date(): month 1..12 and day of the month
  hPc             \* "idle", "mount" (effect not run yet), "done"

holidayVars == <<hToday, hPc>>

DaysIn ==
  <<31, 29, 31, 30, 31, 30, 31, 31, 30, 31, 30, 31>>

Dates == {d \in [month : 1..12, day : 1..31] : d.day <= DaysIn[d.month]}

Theme(sh, c1, c2, mode, text) ==
  [shape |-> sh, c1 |-> c1, c2 |-> c2, mode |-> mode, text |-> text]

NoTheme == Theme("none", "", "", "", "")

\* the if / else-if chain, in the order of the code; the text override of
\* the Spring Festival theme is written "Fu" here
HolidayTheme(month, day) ==
  IF month = 12 /\ day >= 20
  THEN Theme("Tree", "#2f5a2f", "#ff0000", "Gradient", "")
  ELSE IF month = 1 /\ day = 1
  THEN Theme("Fireworks", "#ff0000", "#ffd700", "Rainbow", "")
  ELSE IF month = 2 /\ day >= 12 /\ day <= 15
  THEN Theme("Rose", "#ff0055", "#cc0000", "Gradient", "")
  ELSE IF month = 10 /\ day >= 25
  THEN Theme("Pumpkin", "#ff6600", "#2a1a0a", "Gradient", "")
  ELSE IF (month = 1 /\ day >= 20) \/ (month = 2 /\ day <= 10)
  THEN Theme("Text", "#DE2910", "#FF4D00", "Gradient", "Fu")
  ELSE IF month = 6 /\ day >= 1 /\ day <= 15
  THEN Theme("Zongzi", "#228b22", "#f5f5dc", "Gradient", "")
  ELSE IF month = 8 /\ day >= 1 /\ day <= 15
  THEN Theme("Bridge", "#4b0082", "#00bfff", "Gradient", "")
  ELSE IF (month = 9 /\ day >= 15) \/ (month = 10 /\ day <= 5)
  THEN Theme("Rabbit", "#000033", "#ffffe0", "Gradient", "")
  ELSE IF month = 10 /\ day = 1
  THEN Theme("Flag", "#ff0000", "#ffff00", "Gradient", "")
  ELSE NoTheme

HolidayIdle ==
  /\ hToday = [month |-> 3, day |-> 1]
  /\ hPc = "idle"

HolidayInit ==
  /\ hToday \in Dates
  /\ hPc = "mount"

\* the effect: applyTheme of the first branch that matches, if any
HolidayEffect ==
  /\ hPc = "mount"
  /\ hPc' = "done"
  /\ UNCHANGED hToday
  /\ IF HolidayTheme(hToday.month, hToday.day) = NoTheme
     THEN UNCHANGED pvars
     ELSE ApplyTheme(HolidayTheme(hToday.month, hToday.day))

\* ------------------------------------------------------------ two runs
\* of the render loop side by side: the second run is given records that
\* differ from the first run's in rotation, isPeaceSign or isNamaste only

\* photo textures followed in the two runs
MaxTwinTextures == 1

VARIABLES
  twinRef,        \* gestureStateRef.current of the second run
  twin            \* the render state of the second run

twinVars == <<twinRef, twin>>

\* another tilt, or one of the flags the other way round
Variants == {"rotation", "peace", "namaste"}

Variant(g, v) ==
  [expansion |-> g.expansion,
   rotation |-> IF v = "rotation" THEN DAdd(g.rotation, D(1)) ELSE g.rotation,
   zoom |-> g.zoom,
   isPeaceSign |-> IF v = "peace" THEN ~g.isPeaceSign ELSE g.isPeaceSign,
   isNamaste |-> IF v = "namaste" THEN ~g.isNamaste ELSE g.isNamaste]

TwinIdle ==
  /\ twinRef = NeutralGesture
  /\ twin = [uExpansion |-> D(0), meshScale |-> D(1), uHasPhoto |-> 0,
             uTexture |-> NoTextures, blending |-> "Additive"]

\* lines 171-181 in both runs: the same smoothed expansion and zoom
TwinPublish(h, v) ==
  /\ detections < MaxDetections
  /\ detections' = detections + 1
  /\ LET g == SmoothedGesture(prevGesture, GestureLogic(h))
     IN  /\ prevGesture' = [expansion |-> g.expansion,
                            rotation |-> g.rotation, zoom |-> g.zoom]
         /\ gestureRef' = handleGestureUpdate(gestureRef, g)
         /\ published' = [any |-> TRUE, record |-> g]
         /\ twinRef' = handleGestureUpdate(twinRef, Variant(g, v))
  /\ UNCHANGED <<wPc, isActive, hands, camera, stream, srcObject, metadata,
                 detecting, sending, hasError, isLoaded, cameraReady>>
  /\ UNCHANGED <<pvars, frameVars, twin>>

\* a frame of both runs
TwinFrame ==
  /\ FrameTick
  /\ twin' = FrameResult(twin, twinRef, particleTextures)
  /\ UNCHANGED <<pvars, camVars, refVars, twinRef>>

\* a photo texture arrives in both runs
TwinTexture ==
  /\ Len(particleTextures) < MaxTwinTextures
  /\ particleTextures' = Append(particleTextures,
                             FreshTexture(particleTextures, uTexture))
  /\ UNCHANGED <<shape, colorMode, baseColor, secondaryColor, customText,
                 photoData, textData, pendingLoads>>
  /\ Render(FALSE)
  /\ notice' = FALSE
  /\ UNCHANGED <<runVars, twinVars>>

\* ------------------------------------------------------------ the groups
\* of variables and the idle states that the sections above add

extraVars == <<shuffleVars, flagVars, holidayVars, twinVars>>

coreVars == <<pvars, gvars, runVars, loopVars, shaderVars>>

ExtraIdle == ShuffleIdle /\ FlagIdle /\ HolidayIdle /\ TwinIdle

\* ------------------------------------------------------------ specifications

vars == <<pvars, gvars, runVars, loopVars, shaderVars, extraVars>>

Init == AppInit /\ GenIdle /\ CamInit /\ FrameInit /\ LoopIdle /\ ShaderIdle /\ ExtraIdle

GenNext ==
  \/ GenCall /\ UNCHANGED <<pvars, runVars, loopVars, shaderVars, extraVars>>
  \/ LoopExit /\ UNCHANGED <<pvars, runVars, loopVars, shaderVars, extraVars>>
  \/ LoopSphere /\ UNCHANGED <<pvars, runVars, loopVars, shaderVars, extraVars>>
  \/ LoopLantern /\ UNCHANGED <<pvars, runVars, loopVars, shaderVars, extraVars>>
  \/ LanternRetry /\ UNCHANGED <<pvars, runVars, loopVars, shaderVars, extraVars>>
  \/ LanternOverflow /\ UNCHANGED <<pvars, runVars, loopVars, shaderVars, extraVars>>
  \/ LanternAccept /\ UNCHANGED <<pvars, runVars, loopVars, shaderVars, extraVars>>
  \/ LoopOtherCase /\ UNCHANGED <<pvars, runVars, loopVars, shaderVars, extraVars>>
  \/ LoopNoCase /\ UNCHANGED <<pvars, runVars, loopVars, shaderVars, extraVars>>

GenStart == GenInit /\ CamInit /\ FrameInit /\ LoopIdle /\ ShaderIdle /\ ExtraIdle

GenSpec == GenStart /\ [][GenNext]_vars

Next ==
  \/ (\E s \in PlainShapes : SetShape(s)) /\ UNCHANGED <<gvars, runVars, loopVars, shaderVars, extraVars>>
  \/ (\E t \in Themes : ApplyTheme(t)) /\ UNCHANGED <<gvars, runVars, loopVars, shaderVars, extraVars>>
  \/ (\E m \in ColorMode : SetColorMode(m)) /\ UNCHANGED <<gvars, runVars, loopVars, shaderVars, extraVars>>
  \/ (\E c \in BasePalette : SetBaseColor(c)) /\ UNCHANGED <<gvars, runVars, loopVars, shaderVars, extraVars>>
  \/ (\E c \in SecondaryPalette : SetSecondaryColor(c)) /\ UNCHANGED <<gvars, runVars, loopVars, shaderVars, extraVars>>
  \/ (\E t \in Texts : SetCustomText(t)) /\ UNCHANGED <<gvars, runVars, loopVars, shaderVars, extraVars>>
  \/ (\E b \in PhotoBuffers : ImageUploaded(b)) /\ UNCHANGED <<gvars, runVars, loopVars, shaderVars, extraVars>>
  \/ TextureUploadStarted /\ UNCHANGED <<gvars, runVars, loopVars, shaderVars, extraVars>>
  \/ TextureUploadRejected /\ UNCHANGED <<gvars, runVars, loopVars, shaderVars, extraVars>>
  \/ TextureLoaded /\ UNCHANGED <<gvars, runVars, loopVars, shaderVars, extraVars>>
  \/ TextureLoadFailed /\ UNCHANGED <<gvars, runVars, loopVars, shaderVars, extraVars>>
  \/ ClearTextures /\ UNCHANGED <<gvars, runVars, loopVars, shaderVars, extraVars>>

Spec == Init /\ [][Next]_vars

\* the gesture source, the shared record and the render loop
GestureNext ==
  \/ EffectNoDetector /\ UNCHANGED <<pvars, gvars, frameVars, loopVars, shaderVars, extraVars>>
  \/ EffectStart /\ UNCHANGED <<pvars, gvars, frameVars, loopVars, shaderVars, extraVars>>
  \/ CameraGranted /\ UNCHANGED <<pvars, gvars, frameVars, loopVars, shaderVars, extraVars>>
  \/ CameraRejected /\ UNCHANGED <<pvars, gvars, frameVars, loopVars, shaderVars, extraVars>>
  \/ MetadataLoaded /\ UNCHANGED <<pvars, gvars, frameVars, loopVars, shaderVars, extraVars>>
  \/ DetectFrame /\ UNCHANGED <<pvars, gvars, frameVars, loopVars, shaderVars, extraVars>>
  \/ (\E h \in HandInputs : Results(h))
       /\ UNCHANGED <<pvars, gvars, frameVars, loopVars, shaderVars, extraVars>>
  \/ Unmount /\ UNCHANGED <<pvars, gvars, frameVars, loopVars, shaderVars, extraVars>>
  \/ UnmountFailed /\ UNCHANGED <<pvars, gvars, frameVars, loopVars, shaderVars, extraVars>>
  \/ FrameTick /\ UNCHANGED <<pvars, gvars, camVars, refVars, loopVars, shaderVars, extraVars>>

GestureSpec == Init /\ [][GestureNext]_vars

\* the photo texture list and the render loop
TextureNext ==
  \/ TextureUploadStarted /\ UNCHANGED <<gvars, runVars, loopVars, shaderVars, extraVars>>
  \/ TextureUploadRejected /\ UNCHANGED <<gvars, runVars, loopVars, shaderVars, extraVars>>
  \/ TextureLoaded /\ UNCHANGED <<gvars, runVars, loopVars, shaderVars, extraVars>>
  \/ TextureLoadFailed /\ UNCHANGED <<gvars, runVars, loopVars, shaderVars, extraVars>>
  \/ ClearTextures /\ UNCHANGED <<gvars, runVars, loopVars, shaderVars, extraVars>>
  \/ FrameFree /\ UNCHANGED <<pvars, gvars, camVars, refVars, loopVars, shaderVars, extraVars>>

TextureSpec == Init /\ [][TextureNext]_vars

\* the colour loop
ColourNext ==
  \/ ColourLoopStep /\ UNCHANGED <<pvars, gvars, runVars, shaderVars, extraVars>>
  \/ ColourLoopExit /\ UNCHANGED <<pvars, gvars, runVars, shaderVars, extraVars>>

ColourInit ==
  AppInit /\ GenIdle /\ CamInit /\ FrameInit /\ LoopInit /\ ShaderIdle /\ ExtraIdle

ColourSpec == ColourInit /\ [][ColourNext]_vars

\* the vertex shader
ShaderNext == VertexMain /\ UNCHANGED <<pvars, gvars, runVars, loopVars, extraVars>>

ShaderSpecInit ==
  AppInit /\ GenIdle /\ CamInit /\ FrameInit /\ LoopIdle /\ ShaderInit /\ ExtraIdle

ShaderSpec == ShaderSpecInit /\ [][ShaderNext]_vars

\* the shuffle and the fill loop
ShuffleNext ==
  \/ ShuffleEnter /\ UNCHANGED <<coreVars, flagVars, holidayVars, twinVars>>
  \/ ShuffleSkip /\ UNCHANGED <<coreVars, flagVars, holidayVars, twinVars>>
  \/ ShuffleStep /\ UNCHANGED <<coreVars, flagVars, holidayVars, twinVars>>
  \/ ShuffleReturn /\ UNCHANGED <<coreVars, flagVars, holidayVars, twinVars>>
  \/ FillStep /\ UNCHANGED <<coreVars, flagVars, holidayVars, twinVars>>
  \/ FillReturn /\ UNCHANGED <<coreVars, flagVars, holidayVars, twinVars>>

ShuffleSpecInit ==
  /\ AppInit /\ GenIdle /\ CamInit /\ FrameInit /\ LoopIdle /\ ShaderIdle
  /\ ShuffleInit /\ FlagIdle /\ HolidayIdle /\ TwinIdle

ShuffleSpec == ShuffleSpecInit /\ [][ShuffleNext]_vars

\* one point of the Flag case
FlagNext == FlagCase /\ UNCHANGED <<coreVars, shuffleVars, holidayVars, twinVars>>

FlagSpecInit ==
  /\ AppInit /\ GenIdle /\ CamInit /\ FrameInit /\ LoopIdle /\ ShaderIdle
  /\ ShuffleIdle /\ FlagInit /\ HolidayIdle /\ TwinIdle

FlagSpec == FlagSpecInit /\ [][FlagNext]_vars

\* the startup effect
HolidayNext ==
  HolidayEffect
    /\ UNCHANGED <<gvars, runVars, loopVars, shaderVars, shuffleVars, flagVars,
                   twinVars>>

HolidaySpecInit ==
  /\ AppInit /\ GenIdle /\ CamInit /\ FrameInit /\ LoopIdle /\ ShaderIdle
  /\ ShuffleIdle /\ FlagIdle /\ HolidayInit /\ TwinIdle

HolidaySpec == HolidaySpecInit /\ [][HolidayNext]_vars

\* two runs of the render loop
TwinNext ==
  \/ (\E h \in HandInputs, v \in Variants : TwinPublish(h, v))
       /\ UNCHANGED <<gvars, loopVars, shaderVars, shuffleVars, flagVars,
                      holidayVars>>
  \/ TwinFrame
       /\ UNCHANGED <<gvars, loopVars, shaderVars, shuffleVars, flagVars,
                      holidayVars>>
  \/ TwinTexture
       /\ UNCHANGED <<gvars, loopVars, shaderVars, shuffleVars, flagVars,
                      holidayVars>>

TwinSpec == Init /\ [][TwinNext]_vars

\* ------------------------------------------------------------ properties

\* the slots of an assembled geometry whose pIsPhoto is 1 (the array is
\* created zeroed, so these are among the slots written)
PhotoSlots(g) == {i \in DOMAIN g.pIsPhoto.over : At(g.pIsPhoto, i) = 1}

\* the visible pixels of each buffer, by its construction
ExpectedVisible ==
  [red   |-> 4,
   edge  |-> 2,
   clear |-> 0,
   full  |-> BigW * BigH,
   near  |-> MAX_PARTICLE_COUNT - NearGap,
   zeroW |-> 0,
   zeroH |-> 0]

GenReturned == gPc \in {"loop", "lantern", "done", "RangeError"}

HasBuffer == gType \in {"Image", "Text"} /\ gImage # Null

\* C1: after any sequence of shape selections and buffer changes, the
\* active count the generator returned is within 0..40000.
C1_ActiveCountInRange ==
  /\ gen.g.currentCount >= 0
  /\ gen.g.currentCount <= 40000

C1_Witness ==
  /\ shape = "Image"
  /\ photoData = "full"
  /\ gen.g.currentCount = 40000

\* C2: once the attributes are assembled the draw range starts at 0 and its
\* count is min(baseCount + photoCount, 40000), photoCount being
\* min(length of the texture list, 5).
C2_DrawRange ==
  LET photoCount == IF Len(particleTextures) < 5 THEN Len(particleTextures)
                    ELSE 5
      total == gen.g.currentCount + photoCount
  IN  /\ geo.drawStart = 0
      /\ geo.drawCount = IF total < 40000 THEN total ELSE 40000

C2_Witness ==
  /\ Len(particleTextures) = 5
  /\ gen.g.currentCount = 40000 - NearGap
  /\ geo.drawCount = 40000

\* C3 (as claimed): the slots with isPhotoParticle = 1 are exactly
\* baseCount .. baseCount + photoCount - 1.
C3_PhotoSlotsClaimed ==
  LET photoCount == IF Len(particleTextures) < 5 THEN Len(particleTextures)
                    ELSE 5
  IN  PhotoSlots(geo) =
        gen.g.currentCount..(gen.g.currentCount + photoCount - 1)

\* C4: in every assembled attribute set a slot with isPhotoParticle = 1 has
\* textureEligible = 1 and the colour white.
C4_PhotoSlotsWhiteEligible ==
  \A i \in PhotoSlots(geo) :
    /\ At(geo.pMixTexture, i) = 1
    /\ ColorEq(ColorAt(geo.color, i), White)

C4_Witness ==
  /\ Cardinality(PhotoSlots(geo)) = 5
  /\ geo.color.fill.kind = "set"
  /\ shape = "Flag"

\* C5 (as claimed): the photo texture list never holds more than 5 textures.
C5_ListCapClaimed == Len(particleTextures) <= 5

\* C6: with shape Image or Text and a buffer (of width > 0), the active count
\* is K, the number of pixels with alpha > 20, when K <= 40000, and 40000
\* when K > 40000.
C6_PixelCount ==
  (GenReturned /\ HasBuffer /\ ImageDataOf(gImage).width > 0) =>
    gResult.currentCount =
      IF ExpectedVisible[gImage] <= 40000 THEN ExpectedVisible[gImage]
      ELSE 40000

C6_Witness ==
  /\ gPc = "done"
  /\ gType = "Text"
  /\ gImage = "edge"
  /\ gResult.currentCount = 2

\* C7 (as claimed): with shape Image or Text and a buffer that is empty or
\* has a zero dimension, the call returns the 15000 points of the fallback.
C7_EmptyBufferClaimed ==
  (/\ GenReturned
   /\ HasBuffer
   /\ \/ ImageDataOf(gImage).width = 0
      \/ ImageDataOf(gImage).height = 0
      \/ ExpectedVisible[gImage] = 0)
    => gResult.currentCount = 15000

\* C8: for a shape other than Image and Text, and for Image and Text with no
\* buffer, the call returns an active count of 15000.
C8_ProceduralCount ==
  (GenReturned /\ ~HasBuffer) => gResult.currentCount = 15000

C8_Witness ==
  /\ gPc = "done"
  /\ gType = "Heart"
  /\ gImage = "red"
  /\ gResult.currentCount = 15000

\* C9 (as claimed): for a shape identifier that matches no case, the points
\* are those of the Sphere rule, randomInSphere(5), for the draws of the call.
C9_UnknownShapeClaimed ==
  (gPc = "done" /\ gType \notin ShapeType) =>
    \A i \in DOMAIN gPositions :
      gPositions[i].p = randomInSphere(5, gRandom[i])

\* C10 (as claimed): one Lantern point is sampled with at most
\* LanternRetryCap retries, and the sampling ends with an accepted sample.
C10_LanternBoundedClaimed ==
  /\ gDepth <= LanternRetryCap + 1
  /\ gPc # "RangeError"

\* C11: the colours of the shape-owned slots [0, baseCount) are the
\* generator's colours verbatim exactly when the generator supplied colours
\* and (the shape is Flag, Tree, Image or Text, or the colour mode is Image);
\* otherwise they are synthesized from the colour mode and the two colours.
C11_ColourSource ==
  LET supplied == gen.g.colors.kind # "undefined"
      verbatim == supplied /\ (shape \in {"Flag", "Tree", "Image", "Text"}
                                 \/ colorMode = "ImageColor")
  IN  /\ \A i \in DOMAIN geo.color.over : i >= gen.g.currentCount
      /\ verbatim =>
           geo.color.fill = [kind |-> "set", gen |-> gen.g, seed |-> gen.seed]
      /\ ~verbatim =>
           /\ geo.color.fill.kind = "synth"
           /\ geo.color.fill.mode = colorMode
           /\ geo.color.fill.c1 = HexColor[baseColor]
           /\ geo.color.fill.c2 = HexColor[secondaryColor]
           /\ geo.color.fill.baseCount = gen.g.currentCount

C11_Witness ==
  /\ shape = "Flag"
  /\ colorMode = "Rainbow"
  /\ Len(particleTextures) > 0
  /\ geo.color.fill.kind = "set"
  /\ ColorEq(ColorAt(geo.color, 0), GenColorAt(gen.g, gen.seed, 0))

\* C12: in Gradient mode slot i gets base + (secondary - base) * i / baseCount
\* in every channel (here as a fraction over 255 * baseCount); slot 0 is the
\* base colour exactly, every channel is monotone in i, the last slot is
\* within one step of the secondary colour, and the colour does not depend
\* on the random draws.
C12_Gradient ==
  (lMode = "Gradient" /\ lI >= 1) =>
    LET i == lI - 1
        n == lBaseCount
        a == HexColor[lC1]
        b == HexColor[lC2]
    IN  /\ \A k \in 1..3 :
             /\ lCur[k][2] = a[k][2] * n
             /\ lCur[k][1] = a[k][1] * n + (b[k][1] - a[k][1]) * i
             /\ i = 0 => ChEq(lCur[k], a[k])
             /\ i >= 1 =>
                  /\ lPrev[k][2] = lCur[k][2]
                  /\ a[k][1] <= b[k][1] => lPrev[k][1] <= lCur[k][1]
                  /\ a[k][1] >= b[k][1] => lPrev[k][1] >= lCur[k][1]
             /\ i = n - 1 =>
                  Abs(b[k][1] * n - lCur[k][1]) <= Abs(b[k][1] - a[k][1])
        /\ \A sd \in Seeds : SynthColor("Gradient", a, b, n, sd, i) = lCur

C12_Witness ==
  /\ lPc = "done"
  /\ lMode = "Gradient"
  /\ lBaseCount = PROCEDURAL_COUNT
  /\ lI = lBaseCount
  /\ lPrev # lCur

\* C13: the shared cell holds the record published last (the neutral record
\* before the first publish), and a render frame reads that record and moves
\* the displayed expansion and the mesh scale from where they were toward it.
C13_LatestRecord ==
  /\ gestureRef = IF published.any THEN published.record ELSE NeutralGesture
  /\ lastFrame.ran =>
       /\ lastFrame.seen = IF lastFrame.latest.any THEN lastFrame.latest.record
                           ELSE NeutralGesture
       /\ uExpansion = MathLerp(lastFrame.fromExpansion,
                                lastFrame.seen.expansion, FrameAlpha)
       /\ meshScale = VecLerp(lastFrame.fromScale, lastFrame.seen.zoom,
                              FrameAlpha)

C13_Witness ==
  /\ lastFrame.ran
  /\ detections = 2
  /\ frames >= 2
  /\ steady.n = 1
  /\ lastFrame.latest = published
  /\ published.any
  /\ uExpansion # lastFrame.fromExpansion

\* C14: once the gesture source is torn down, no acquired camera stream is
\* still live and the detector is not open.
C14_ReleasedClaimed ==
  wPc = "unmounted" => (stream # "live" /\ hands # "open")

\* C15: once the gesture source has failed to start (no detector class, or
\* the camera request rejected) nothing is ever published: the shared record
\* is the neutral one, the displayed expansion and scale stay at 0 and 1, and
\* a render frame can still run while the view is mounted.
C15_NeutralAfterFailure ==
  (hasError \/ wPc = "failed" \/ camera = "rejected") =>
    /\ gestureRef = NeutralGesture
    /\ ~published.any
    /\ uExpansion = D(0)
    /\ meshScale = D(1)
    /\ wPc # "unmounted" => ENABLED FrameFree

C15_Witness ==
  /\ camera = "rejected"
  /\ hasError
  /\ lastFrame.ran
  /\ steady.n >= 2
  /\ gestureRef = NeutralGesture

\* where a frame that started at cur and read the target g may end
StepToward(cur, g, now) ==
  /\ now = DAdd(cur, DMul(FrameAlpha, DSub(g, cur)))
  /\ DLeq(cur, g) => (DLeq(cur, now) /\ DLeq(now, g))
  /\ DLeq(g, cur) => (DLeq(g, now) /\ DLeq(now, cur))

\* C16: a frame moves the displayed expansion from cur to
\* cur + 0.1 * (g - cur), between cur and g, and likewise the mesh scale
\* toward the zoom; after k frames in a row with the same record the distance
\* to g is 0.9^k times the distance before the first of them.
C16_Smoothing ==
  lastFrame.ran =>
    /\ StepToward(lastFrame.fromExpansion, lastFrame.seen.expansion, uExpansion)
    /\ StepToward(lastFrame.fromScale, lastFrame.seen.zoom, meshScale)
    /\ (steady.n >= 1 /\ steady.n <= MaxFrames) =>
         /\ DAbs(DSub(lastFrame.seen.expansion, uExpansion))
              = DMul(steady.gapExpansion, <<9 ^ steady.n, steady.n>>)
         /\ DAbs(DSub(lastFrame.seen.zoom, meshScale))
              = DMul(steady.gapScale, <<9 ^ steady.n, steady.n>>)

C16_Witness ==
  /\ lastFrame.ran
  /\ steady.n >= 3
  /\ steady.gapExpansion # D(0)
  /\ steady.gapScale # D(0)
  /\ DLess(lastFrame.fromExpansion, uExpansion)
  /\ DLess(uExpansion, lastFrame.seen.expansion)

\* C17: the random size and rotation arrays are the ones made by the first
\* run of the memo, MAX_PARTICLE_COUNT slots long, whatever shape, pixel
\* buffer, colours and photo list the application has moved to since.
C17_RandomOnce ==
  randomArrays = [length |-> MAX_PARTICLE_COUNT, run |-> 1]

C17_Witness ==
  /\ randomArrays.run = 1
  /\ shape = "Image"
  /\ photoData # Null
  /\ colorMode = "Rainbow"
  /\ baseColor # "#ff0055"
  /\ Len(particleTextures) > 0

\* C18: after a render frame the blending is additive exactly when the
\* texture list the frame saw was empty, and normal exactly when it held at
\* least one texture; uHasPhoto follows the same test.
C18_Blending ==
  lastFrame.ran =>
    /\ blending = "Additive" <=> lastFrame.textures = 0
    /\ blending = "Normal" <=> lastFrame.textures >= 1
    /\ uHasPhoto = IF lastFrame.textures = 0 THEN 0 ELSE 1

\* a frame with an empty list after frames with a filled one
C18_Witness ==
  /\ lastFrame.ran
  /\ lastFrame.textures = 0
  /\ blending = "Additive"
  /\ uTexture[0] # NoTexture
  /\ particleTextures = <<>>

\* C19: while the list holds 5 textures (or more) an upload can only end in
\* the alert: no step starts a load, and the step that shows the alert
\* leaves the texture list (so photoCount), the pending loads, the generated
\* shape and the assembled geometry (draw range and every attribute buffer)
\* as they were.
C19_UploadRejected ==
  [][/\ Len(particleTextures) >= PhotoCap =>
          /\ pendingLoads' <= pendingLoads
          /\ ENABLED TextureUploadRejected
     /\ (notice' /\ ~notice) =>
          /\ Len(particleTextures) >= PhotoCap
          /\ UNCHANGED <<appVars, gen, geo, randomArrays>>
          /\ photoCountOf(particleTextures') = photoCountOf(particleTextures)
          /\ geo'.drawCount = geo.drawCount]_vars

C19_Witness ==
  /\ notice
  /\ Len(particleTextures) = PhotoCap
  /\ geo.drawCount = gen.g.currentCount + PhotoCap

\* C20: with uExpansion = 0 the position after the expansion step (before
\* pos *= uScale) is the position attribute itself, for the origin and for
\* points nearer to it than 0.001 too, whatever normalize() gave for them.
C20_NoDisplacement ==
  (vPc = "out" /\ vExpansion = D(0)) =>
    /\ vOut.expanded = Vec(vPosition.p)
    /\ vOut.scaled = Scaled(Vec(vPosition.p), vScale)

C20_Witness ==
  /\ vPc = "out"
  /\ vExpansion = D(0)
  /\ vPosition.len = 0
  /\ vUndef = <<NaN, NaN, NaN>>
  /\ vOut.expanded = Vec(<<0, 0, 0>>)

\* C21: every published gesture record has expansion within 0 to 1 and zoom
\* within 0.5 to 2.5, the ranges written on GestureState.
C21_RangesClaimed ==
  published.any =>
    /\ DLeq(D(0), published.record.expansion)
    /\ DLeq(published.record.expansion, D(1))
    /\ DLeq(<<5, 1>>, published.record.zoom)
    /\ DLeq(published.record.zoom, <<25, 1>>)

\* the kept pixels a list holds, each with the number of its places
Places(array, p) == Cardinality({k \in 1..Len(array) : array[k] = p})

\* C22: with more kept pixels than the capacity, the shuffle only permutes
\* the list (every kept pixel is in it exactly once, at every step), and the
\* points written are as many as the capacity, come from distinct kept
\* pixels, and each carries the position and the colour of its own pixel.
C22_ShufflePermutes ==
  Len(sKept) > sCap =>
    /\ Len(sArray) = Len(sKept)
    /\ \A k \in 1..Len(sKept) : Places(sArray, sKept[k]) = 1
    /\ sPc = "done" =>
         /\ sActive = sCap
         /\ Len(sOut) = sCap
         /\ \A m, n \in 1..Len(sOut) :
              m # n => <<sOut[m].x, sOut[m].y>> # <<sOut[n].x, sOut[n].y>>
         /\ \A n \in 1..Len(sOut) :
              \E k \in 1..Len(sKept) :
                /\ sOut[n].x = sKept[k].x
                /\ sOut[n].y = sKept[k].y
                /\ sOut[n].rgb = sKept[k].rgb

C22_Witness ==
  /\ sPc = "done"
  /\ Len(sKept) = MaxKept
  /\ Len(sOut) = sCap
  /\ sOut[1].x = sKept[MaxKept].x
  /\ sOut[1].y = sKept[MaxKept].y
  /\ sArray # sKept

\* C23: for shape Tree the generator returns per-point colours, size
\* overrides and texture-eligibility flags.
C23_TreeOutputsClaimed ==
  (gPc = "done" /\ gType = "Tree") =>
    /\ gResult.colors.kind # "undefined"
    /\ gResult.sizes # NotReturned
    /\ gResult.textureMix # NotReturned

C25_NationalDayClaimed ==
  (hPc = "done" /\ hToday = [month |-> 10, day |-> 1]) =>
    /\ shape = "Flag"
    /\ baseColor = "#ff0000"
    /\ secondaryColor = "#ffff00"

\* C26: two runs of the render loop whose gesture records agree in expansion
\* and zoom and differ in rotation, isPeaceSign or isNamaste have the same
\* expansion uniform, mesh scale, blending and texture uniforms after every
\* frame.
C26_RenderIndependent ==
  (twinRef.expansion = gestureRef.expansion /\ twinRef.zoom = gestureRef.zoom)
    => twin = RenderState

C26_Witness ==
  /\ frames >= 2
  /\ detections >= 2
  /\ twinRef.isNamaste # gestureRef.isNamaste
  /\ twin.uExpansion # D(0)
  /\ twin.blending = "Normal"
  /\ twin = RenderState

\* C27: in Image colour mode with no colours from the generator, the first,
\* second, middle and last slot below baseCount carry the colour Gradient
\* mode gives them for the same base and secondary colour.
C27_ImageModeIsGradient ==
  (colorMode = "ImageColor" /\ gen.g.colors.kind = "undefined") =>
    LET n == gen.g.currentCount
    IN  \A i \in {0, 1, n \div 2, n - 1} :
          ColorAt(geo.color, i)
            = SynthColor("Gradient", HexColor[baseColor],
                         HexColor[secondaryColor], n, 0, i)

C27_Witness ==
  /\ colorMode = "ImageColor"
  /\ gen.g.colors.kind = "undefined"
  /\ shape = "Heart"
  /\ baseColor # secondaryColor
  /\ ColorAt(geo.color, gen.g.currentCount - 1) # HexColor[baseColor]

\* C28: at a frame drawn after the assembly of the current photo list, every
\* slot with isPhotoParticle = 1 and textureIndex = k finds uniform uTexture<k>
\* bound to the k-th texture of that list: not unbound, and not a texture
\* that clear-all removed
C28_PhotoTextureBound ==
  (lastFrame.ran /\ lastFrame.list = particleTextures) =>
    \A slot \in DOMAIN geo.pIsPhoto.over :
      At(geo.pIsPhoto, slot) = 1 =>
        LET k == At(geo.pTextureIndex, slot)
        IN  /\ k \in 0..(PhotoCap - 1)
            /\ k < Len(particleTextures)
            /\ uTexture[k] # NoTexture
            /\ uTexture[k] = particleTextures[k + 1]

\* a frame drawn after clear-all and a new load: the photo slot's uniform holds
\* the new texture, not the one that was bound before the clear
C28_Witness ==
  /\ lastFrame.ran
  /\ lastFrame.list = particleTextures
  /\ Len(particleTextures) > 0
  /\ particleTextures[1] > PhotoCap
  /\ \E slot \in DOMAIN geo.pIsPhoto.over :
       /\ At(geo.pIsPhoto, slot) = 1
       /\ At(geo.pTextureIndex, slot) = 0
  /\ uTexture[0] = particleTextures[1]

\* C29: once clear-all has emptied the photo list and the attributes are
\* reassembled, no slot has isPhotoParticle = 1, the slots after the base
\* shape that held photo particles have size override 0 again, and the drawn
\* count is baseCount
C29_NoPhotoLeft ==
  particleTextures = <<>> =>
    /\ geo.pIsPhoto.fill # 1
    /\ \A slot \in DOMAIN geo.pIsPhoto.over : geo.pIsPhoto.over[slot] # 1
    /\ \A i \in 0..(PhotoCap - 1) :
         At(geo.pSizeOverride, gen.g.currentCount + i) = 0
    /\ geo.drawCount = gen.g.currentCount

\* the list is empty and a uniform still holds a texture: a photo was loaded
\* and drawn, and clear-all removed it
C29_Witness ==
  /\ particleTextures = <<>>
  /\ lastFrame.ran
  /\ uTexture[0] # NoTexture
  /\ gen.g.currentCount \in Slots
  /\ At(geo.pSizeOverride, gen.g.currentCount) = 0
  /\ geo.drawCount = gen.g.currentCount

\* C30: once the gesture source is torn down no gesture record is published
\* any more (neither the published record nor the shared cell changes) and no
\* detection frame is scheduled, also by a step in which a detector result or
\* a pending send completes after the teardown
C30_QuietAfterTeardown ==
  [][/\ wPc' = "unmounted" => ~detecting'
     /\ wPc = "unmounted" =>
          /\ published' = published
          /\ gestureRef' = gestureRef]_vars

\* torn down, and a send that was pending at the teardown has completed since:
\* a result was delivered and nothing was ever published
C30_Witness ==
  /\ wPc = "unmounted"
  /\ ~isActive
  /\ detections >= 1
  /\ ~sending
  /\ ~detecting
  /\ ~published.any

====
